---- MODULE Spec2Model ----
(***************************************************************************)
(* The workflow orchestrator of server/orchestrator.ts (AgentOrchestrator)  *)
(* as a state machine.  One run is modelled: the async function execute()   *)
(* is cut at its await points (the backend call of streamChat and each      *)
(* chunk of its stream); between two awaits the code runs without           *)
(* interleaving, so abort() (the request's "close" handler) can only         *)
(* happen while the run waits on the backend or after execute() returned.   *)
(*                                                                         *)
(* Text is a sequence of atoms.  Timestamps and random ids are abstracted:  *)
(* a task's id is its position in run.tasks.                                *)
(***************************************************************************)
EXTENDS Naturals, Sequences, FiniteSets, TLC

(* ------------------------------ bounds --------------------------------- *)
\* largest number of entries of a JSON array the structurer answers with
MaxTasks == 2
\* longest block-mode response, in characters
MaxBlockLen == 101
\* longest structurer response of the exhaustive structuring inputs, in atoms
MaxRespLen == 4
\* longest prose prefix of the prose-then-array structuring inputs, in atoms
MaxProse == 2
\* most parts of a path given to the sandbox
MaxPathLen == 3
\* longest command line given to execute_shell, in atoms
MaxCmdLen == 3

(* -------------------------- program constants -------------------------- *)
maxSupervisorRetries == 3
chunkSize == 50

AbortMessage == "Operation aborted by user"
userGoal == "goal"
Undefined == "undefined"
UndefinedText == <<"undefined">>

WorkflowPhases ==
  {"idle", "analyzing", "planning", "structuring", "executing", "reviewing",
   "completed", "failed"}
TaskStatuses == {"todo", "analyzing", "coding", "reviewing", "done", "failed"}
TaskPriorities == {"critical", "high", "medium", "low"}

VARIABLES
  provider,            \* settings.provider
  phase,               \* run.phase
  logs,                \* run.logs
  tasks,               \* run.tasks
  currentTaskId,       \* run.currentTaskId
  analysisResult,      \* run.analysisResult
  planningResult,      \* run.planningResult
  supervisorFeedback,  \* run.supervisorFeedback
  supervisorPassCount, \* run.supervisorPassCount
  aborted,             \* this.aborted
  events,              \* the frames written to res, in order
  pc,                  \* where execute() stands
  role,                \* the call site of the streamChat in progress
  pending,             \* the fragments the backend has still to deliver
  fullResponse,        \* streamChat's accumulator
  ret,                 \* the value the last streamChat returned
  err,                 \* the message of the error the last streamChat threw
  callStart,           \* Len(events) when the streamChat in progress was called
  calls,               \* the backend calls issued so far, by call site
  sortedTasks,         \* executionPhase's sorted copy, as positions in run.tasks
  idx,                 \* executionPhase's loop position in sortedTasks
  passed,              \* reviewPhase's local
  retries,             \* reviewPhase's local
  reqMessage,          \* req.body.message of the streaming request
  reqSettings,         \* req.body.apiSettings of the streaming request
  httpResponse,        \* what the streaming route has answered so far
  disk,                \* the filesystem: path -> directory or file content
  command,             \* the SandboxCommand executeSandboxCommand was called with
  result,              \* what executeSandboxCommand returned
  accesses,            \* the fs calls that invocation made, as (op, path)
  spawned,             \* the command lines that invocation gave to exec
  execOutcome,         \* what the subprocess of that invocation ended with
  checked,             \* the paths sanitizePath returned in that invocation
  boxPc,               \* whether executeSandboxCommand was called: "idle", "done"
  other                \* a second orchestrator of the same server: its fields and
                       \* where its execute() stands

vars ==
  <<provider, phase, logs, tasks, currentTaskId, analysisResult, planningResult,
    supervisorFeedback, supervisorPassCount, aborted, events, pc, role, pending,
    fullResponse, ret, err, callStart, calls, sortedTasks, idx, passed, retries,
    reqMessage, reqSettings, httpResponse, disk, command, result, accesses, spawned,
    execOutcome, checked, boxPc, other>>

routeVars == <<reqMessage, reqSettings, httpResponse>>
boxVars == <<disk, command, result, accesses, spawned, execOutcome, checked, boxPc>>
\* the state of the server outside the orchestrator object
serverVars == <<routeVars, boxVars, other>>

(* ------------------------------ helpers -------------------------------- *)
Last(s) == s[Len(s)]

RECURSIVE Flatten(_)
Flatten(ss) == IF ss = <<>> THEN <<>> ELSE Head(ss) \o Flatten(Tail(ss))

RECURSIVE SeqsUpTo(_, _)
SeqsUpTo(S, n) ==
  IF n = 0 THEN {<<>>}
  ELSE LET shorter == SeqsUpTo(S, n - 1)
       IN shorter \cup {Append(s, x) : s \in {t \in shorter : Len(t) = n - 1}, x \in S}

\* The orchestrator object: the run and the response channel, as one record.
Cur ==
  [phase |-> phase, logs |-> logs, tasks |-> tasks, currentTaskId |-> currentTaskId,
   analysisResult |-> analysisResult, planningResult |-> planningResult,
   supervisorFeedback |-> supervisorFeedback,
   supervisorPassCount |-> supervisorPassCount,
   aborted |-> aborted, events |-> events]

Commit(o) ==
  /\ phase' = o.phase
  /\ logs' = o.logs
  /\ tasks' = o.tasks
  /\ currentTaskId' = o.currentTaskId
  /\ analysisResult' = o.analysisResult
  /\ planningResult' = o.planningResult
  /\ supervisorFeedback' = o.supervisorFeedback
  /\ supervisorPassCount' = o.supervisorPassCount
  /\ events' = o.events

StreamingChunk(type) ==
  [type |-> type, phase |-> "", content |-> <<>>, taskId |-> 0, task |-> <<>>,
   error |-> ""]

(* ------------------------- sendEvent, log, setPhase -------------------- *)
\* faulty variant: the abort flag is not looked at
SendEventUnguarded(o, chunk) == [o EXCEPT !.events = Append(@, chunk)]

SendEvent(o, chunk) ==
  IF o.aborted THEN o ELSE [o EXCEPT !.events = Append(@, chunk)]

LevelTag(level) ==
  CASE level = "info" -> "[INFO]"
    [] level = "warn" -> "[WARN]"
    [] level = "error" -> "[ERROR]"
    [] OTHER -> "[DEBUG]"

Log(o, level, message) ==
  SendEvent(
    [o EXCEPT !.logs = Append(@, [level |-> level, message |-> message,
                                  phase |-> o.phase])],
    [StreamingChunk("log") EXCEPT !.content = <<LevelTag(level)>> \o message])

SetPhase(o, p) ==
  Log(SendEvent([o EXCEPT !.phase = p],
                [StreamingChunk("phase_change") EXCEPT !.phase = p]),
      "info", <<"Phase changed to:", p>>)

(* --------------------- what the backend may answer --------------------- *)
\* The JSON objects a structurer response is made of, as atoms.
ObjAtoms == {"{A,low}", "{B,critical}", "{C,low}", "{D}"}

titleOf(t) ==
  CASE t = "{A,low}" -> "A"
    [] t = "{B,critical}" -> "B"
    [] t = "{C,low}" -> "C"
    [] t = "{D}" -> "D"
    [] OTHER -> Undefined

\* "" stands for a missing (falsy) priority
priorityOf(t) ==
  CASE t = "{A,low}" -> "low"
    [] t = "{B,critical}" -> "critical"
    [] t = "{C,low}" -> "low"
    [] OTHER -> ""

RECURSIVE JoinComma(_)
JoinComma(entries) ==
  IF entries = <<>> THEN <<>>
  ELSE IF Len(entries) = 1 THEN <<entries[1]>>
  ELSE <<entries[1], ",">> \o JoinComma(Tail(entries))

\* the text of a JSON array with the given entries
ArrayText(entries) == <<"[">> \o JoinComma(entries) \o <<"]">>

DistinctEntries(n) ==
  {e \in SeqsUpTo(ObjAtoms, n) : \A i, j \in 1..Len(e) : i # j => e[i] # e[j]}

\* structurer responses of the whole-run specification
StructurerResponses ==
  {ArrayText(e) : e \in DistinctEntries(MaxTasks)}
  \cup {<<"w">>,
        <<"w", "[", "w", "]">>,
        <<"[", "null", "]">>,
        <<"w", "w">> \o ArrayText(<<"{D}", "{B,critical}">>),
        <<"[", "w", "]">> \o ArrayText(<<"{A,low}">>)}

PassedMarker == <<"PAS", "SED">>

CleanCode == <<"FENCE_TS", "NL", "{", "(", ")", "}", "FENCE">>
BrokenCode == <<"w", "FENCE_TS", "NL", "{", "(", "FENCE">>

\* a response split in two fragments after its first atom
Split(text) ==
  IF Len(text) < 2 THEN <<text>>
  ELSE <<SubSeq(text, 1, 1), SubSeq(text, 2, Len(text))>>

\* The fragment sequences an incremental backend may deliver, by call site.
Streams(r) ==
  CASE r = "analyzer" -> {<< <<"w">>, <<>>, <<"w", "w">> >>}
    [] r = "planner" -> {<< <<"w">> >>}
    [] r = "structurer" -> {Split(t) : t \in StructurerResponses}
    [] r = "task_analyzer" -> {<< <<"w">> >>}
    [] r = "worker" -> {<<CleanCode>>, <<BrokenCode>>}
    [] r = "syntax_fix" -> {<<BrokenCode>>}
    [] r = "supervisor" -> {<< <<"w", "PAS">>, <<"SED">> >>, << <<"NEEDS_FIXES">> >>}
    [] r = "review_fix" -> {<<>>}
    [] OTHER -> {}

\* block-mode responses: the characters of a response are numbered
BlockText(n) == [i \in 1..n |-> i]
BlockContents ==
  {BlockText(n) : n \in {0, 1, chunkSize, chunkSize + 1, MaxBlockLen}}

ErrorMessages == {"backend failure"}

(* ------------------------------ streamChat ------------------------------ *)
runVars ==
  <<phase, logs, tasks, currentTaskId, analysisResult, planningResult,
    supervisorFeedback, supervisorPassCount, events>>
localVars == <<sortedTasks, idx, passed, retries>>

\* streamChat(...) is called from call site r: the request goes out and the
\* caller waits on client.chat.completions.create
CallStreamChat(o, r) ==
  /\ pc' = "create"
  /\ role' = r
  /\ calls' = Append(calls, r)
  /\ callStart' = Len(o.events)
  /\ pending' = <<>>
  /\ fullResponse' = <<>>
  /\ UNCHANGED <<ret, err>>

Min(a, b) == IF a < b THEN a ELSE b

\* faulty variant: the slice starts one character late
SliceLate(content, from, to) == SubSeq(content, from + 2, Min(to, Len(content)))

\* content.slice(from, to)
Slice(content, from, to) == SubSeq(content, from + 1, Min(to, Len(content)))

TokenEvent(content) == [StreamingChunk("token") EXCEPT !.content = content]

\* the chunk loop of block mode, from offset i
\* faulty variant: the whole response goes out as one token
SendChunksWhole(o, content, i) ==
  IF i < Len(content) /\ ~o.aborted THEN SendEvent(o, TokenEvent(content)) ELSE o

RECURSIVE SendChunks(_, _, _)
SendChunks(o, content, i) ==
  IF i < Len(content)
  THEN IF o.aborted THEN o
       ELSE SendChunks(SendEvent(o, TokenEvent(Slice(content, i, i + chunkSize))),
                       content, i + chunkSize)
  ELSE o

\* block mode: create() resolves with the whole response
CreateBlock(content) ==
  /\ pc = "create"
  /\ provider = "custom"
  /\ Commit(IF content # <<>> THEN SendChunks(Cur, content, 0) ELSE Cur)
  /\ ret' = content
  /\ pc' = "ret"
  /\ UNCHANGED <<serverVars, provider, aborted, role, pending, fullResponse, err, callStart,
                 calls, localVars>>

\* incremental mode: create() resolves with a stream
CreateStream(stream) ==
  /\ pc = "create"
  /\ provider # "custom"
  /\ pending' = stream
  /\ pc' = "stream"
  /\ UNCHANGED <<serverVars, provider, aborted, runVars, role, fullResponse, ret, err,
                 callStart, calls, localVars>>

\* the catch of streamChat: log the error and rethrow
StreamChatCatch(message) ==
  /\ Commit(Log(Cur, "error", <<"API Error:", message>>))
  /\ err' = message
  /\ pc' = "threw"
  /\ UNCHANGED <<serverVars, provider, aborted, role, pending, fullResponse, ret, callStart,
                 calls, localVars>>

\* create() rejects
CreateFails(message) ==
  /\ pc = "create"
  /\ StreamChatCatch(message)

\* one iteration of the for-await loop
StreamChunk ==
  /\ pc = "stream"
  /\ pending # <<>>
  /\ IF aborted
     THEN /\ ret' = fullResponse
          /\ pc' = "ret"
          /\ UNCHANGED <<runVars, pending, fullResponse>>
     ELSE LET content == Head(pending)
          IN /\ pending' = Tail(pending)
             /\ IF content # <<>>
                THEN /\ fullResponse' = fullResponse \o content
                     /\ Commit(SendEvent(Cur, TokenEvent(content)))
                ELSE UNCHANGED <<fullResponse, runVars>>
             /\ UNCHANGED <<ret, pc>>
  /\ UNCHANGED <<serverVars, provider, aborted, role, err, callStart, calls, localVars>>

\* the stream ends: return fullResponse
StreamEnd ==
  /\ pc = "stream"
  /\ pending = <<>>
  /\ ret' = fullResponse
  /\ pc' = "ret"
  /\ UNCHANGED <<serverVars, provider, aborted, runVars, role, pending, fullResponse, err,
                 callStart, calls, localVars>>

\* the stream raises while it is read
StreamFails(message) ==
  /\ pc = "stream"
  /\ StreamChatCatch(message)

(* -------------------------------- abort -------------------------------- *)
\* The request's "close" handler; it can run while execute() waits on the
\* backend, or after execute() has returned and the response was ended.
Abort ==
  /\ pc \in {"create", "stream", "returned"}
  /\ ~aborted
  /\ aborted' = TRUE
  /\ Commit(SendEvent([Cur EXCEPT !.aborted = TRUE],
                      [StreamingChunk("error") EXCEPT !.error = AbortMessage]))
  /\ UNCHANGED <<serverVars, provider, pc, role, pending, fullResponse, ret, err, callStart,
                 calls, localVars>>

(* ------------------- structuringPhase: finding the tasks ---------------- *)
Positions(text, atom) == {i \in 1..Len(text) : text[i] = atom}
MinOf(S) == CHOOSE x \in S : \A y \in S : x <= y
MaxOf(S) == CHOOSE x \in S : \A y \in S : x >= y

\* response.match(/\[[\s\S]*\]/) finds a span: some "[" with a "]" after it
HasJsonMatch(response) ==
  \E i \in Positions(response, "[") : \E j \in Positions(response, "]") : i < j

\* faulty variant: the whole response is handed to JSON.parse
JsonMatchWhole(response) == response

\* jsonMatch[0]: greedy, from the first "[" to the last "]"
JsonMatch(response) ==
  SubSeq(response, MinOf(Positions(response, "[")), MaxOf(Positions(response, "]")))

\* JSON.parse: the position after the value that starts at i, 0 when there is none
RECURSIVE ParseValue(_, _)
RECURSIVE ParseElements(_, _, _)
ParseValue(text, i) ==
  IF i > Len(text) THEN 0
  ELSE IF text[i] \in ObjAtoms \cup {"null"} THEN i + 1
  ELSE IF text[i] = "[" THEN ParseElements(text, i + 1, TRUE)
  ELSE 0

ParseElements(text, i, first) ==
  IF i > Len(text) THEN 0
  ELSE IF text[i] = "]" THEN (IF first THEN i + 1 ELSE 0)
  ELSE LET j == ParseValue(text, i)
       IN IF j = 0 \/ j > Len(text) THEN 0
          ELSE IF text[j] = "," THEN ParseElements(text, j + 1, FALSE)
          ELSE IF text[j] = "]" THEN j + 1
          ELSE 0

\* JSON.parse(text) does not throw
JsonParses(text) == ParseValue(text, 1) = Len(text) + 1

\* the entries of the parsed array, each by its first atom
RECURSIVE ArrayEntries(_, _)
ArrayEntries(text, i) ==
  IF text[i] = "]" THEN <<>>
  ELSE LET j == ParseValue(text, i)
       IN <<text[i]>> \o (IF text[j] = "," THEN ArrayEntries(text, j + 1)
                          ELSE <<>>)

JsonParse(text) == ArrayEntries(text, 2)

NewTask(id, title, description, priority) ==
  [id |-> id, title |-> title, description |-> description, status |-> "todo",
   priority |-> priority, assignee |-> "worker", filePath |-> Undefined,
   logs |-> <<>>, completedAt |-> ""]

\* tasksData.map(...): one task per entry
MapTasks(tasksData) ==
  [i \in 1..Len(tasksData) |->
     NewTask(i, titleOf(tasksData[i]), UndefinedText,
             IF priorityOf(tasksData[i]) # "" THEN priorityOf(tasksData[i])
             ELSE "medium")]

\* reading t.title of null throws a TypeError
MapThrows(tasksData) == \E i \in 1..Len(tasksData) : tasksData[i] = "null"

TaskEvent(type, t) ==
  [StreamingChunk(type) EXCEPT !.task = <<t>>, !.taskId = t.id]

RECURSIVE SendTaskUpdates(_, _)
SendTaskUpdates(o, i) ==
  IF i > Len(o.tasks) THEN o
  ELSE SendTaskUpdates(SendEvent(o, TaskEvent("task_update", o.tasks[i])), i + 1)

FallbackTask(response) == NewTask(1, userGoal, response, "high")

\* the try/catch of structuringPhase, given the structurer's response
ParseTasks(o, response) ==
  IF ~HasJsonMatch(response) THEN o
  ELSE IF JsonParses(JsonMatch(response)) /\ ~MapThrows(JsonParse(JsonMatch(response)))
  THEN SendTaskUpdates([o EXCEPT !.tasks = MapTasks(JsonParse(JsonMatch(response)))], 1)
  ELSE [Log(o, "warn", <<"Failed to parse tasks JSON, creating single task">>)
          EXCEPT !.tasks = <<FallbackTask(response)>>]

(* --------------------- executionPhase: the task order ------------------- *)
priorityOrder(p) ==
  CASE p = "critical" -> 0
    [] p = "high" -> 1
    [] p = "medium" -> 2
    [] p = "low" -> 3

\* position i goes after every position whose rank is not larger: stable
InsertByRank(ts, sorted, i) ==
  LET keep == {k \in 1..Len(sorted) :
                 priorityOrder(ts[sorted[k]].priority) <= priorityOrder(ts[i].priority)}
      n == Cardinality(keep)
  IN SubSeq(sorted, 1, n) \o <<i>> \o SubSeq(sorted, n + 1, Len(sorted))

RECURSIVE SortFrom(_, _, _)
SortFrom(ts, sorted, i) ==
  IF i > Len(ts) THEN sorted
  ELSE SortFrom(ts, InsertByRank(ts, sorted, i), i + 1)

\* faulty variant: the tasks are taken in creation order
SortTasksUnsorted(ts) == [i \in 1..Len(ts) |-> i]

\* [...this.run.tasks].sort(by priorityOrder), as positions in run.tasks
SortTasks(ts) == SortFrom(ts, <<>>, 1)

(* ------------------------------ checkSyntax ----------------------------- *)
Count(text, atom) == Cardinality(Positions(text, atom))

BlockErrors(content) ==
  (IF Count(content, "{") # Count(content, "}") THEN <<"Mismatched curly braces">>
   ELSE <<>>)
  \o (IF Count(content, "(") # Count(content, ")") THEN <<"Mismatched parentheses">>
      ELSE <<>>)
  \o (IF Count(content, "[") # Count(content, "]") THEN <<"Mismatched brackets">>
      ELSE <<>>)

\* the matches of /```(?:typescript|ts)\n([\s\S]*?)```/g from position i on
RECURSIVE CodeBlockErrors(_, _)
CodeBlockErrors(code, i) ==
  IF i + 1 > Len(code) THEN <<>>
  ELSE IF code[i] = "FENCE_TS" /\ code[i + 1] = "NL"
  THEN LET closers == {j \in (i + 2)..Len(code) : code[j] \in {"FENCE", "FENCE_TS"}}
       IN IF closers = {} THEN <<>>
          ELSE BlockErrors(SubSeq(code, i + 2, MinOf(closers) - 1))
               \o CodeBlockErrors(code, MinOf(closers) + 1)
  ELSE CodeBlockErrors(code, i + 1)

CheckSyntax(code) ==
  IF Positions(code, "FENCE_TS") # {} THEN CodeBlockErrors(code, 1) ELSE <<>>

(* --------------------------- execute: the phases ------------------------ *)
frameVars == <<role, pending, fullResponse, ret, err, callStart, calls>>

CompleteEvent == StreamingChunk("complete")
\* faulty variant: the raised error's message is not passed on
ErrorEventGeneric(message) == [StreamingChunk("error") EXCEPT !.error = "Unknown error"]
ErrorEvent(message) == [StreamingChunk("error") EXCEPT !.error = message]

\* faulty variant: the single call is made in the analyzing phase
SimplifiedExecuteAsAnalyze ==
  /\ pc = "start"
  /\ provider = "custom"
  /\ LET o == SetPhase(Cur, "analyzing")
     IN Commit(o) /\ CallStreamChat(o, "simple")
  /\ UNCHANGED <<serverVars, provider, aborted, localVars>>

\* simplifiedExecute up to its backend call (provider = custom)
SimplifiedExecute ==
  /\ pc = "start"
  /\ provider = "custom"
  /\ LET o == SetPhase(Cur, "executing")
     IN Commit(o) /\ CallStreamChat(o, "simple")
  /\ UNCHANGED <<serverVars, provider, aborted, localVars>>

\* simplifiedExecute after its call returned
SimplifiedExecuteDone ==
  /\ pc = "ret"
  /\ role = "simple"
  /\ Commit(SendEvent(SetPhase(Cur, "completed"), CompleteEvent))
  /\ pc' = "returned"
  /\ UNCHANGED <<serverVars, provider, aborted, frameVars, localVars>>

\* the catch of simplifiedExecute
SimplifiedExecuteCatch ==
  /\ pc = "threw"
  /\ role = "simple"
  /\ Commit(SendEvent(SetPhase(Cur, "failed"), ErrorEvent(err)))
  /\ pc' = "returned"
  /\ UNCHANGED <<serverVars, provider, aborted, frameVars, localVars>>

\* the catch of execute
ExecuteCatch ==
  /\ pc = "threw"
  /\ role # "simple"
  /\ Commit(SendEvent(SetPhase(Cur, "failed"), ErrorEvent(err)))
  /\ pc' = "returned"
  /\ UNCHANGED <<serverVars, provider, aborted, frameVars, localVars>>

\* execute's "if (this.aborted) return" after a phase
ExecuteReturnAborted ==
  /\ pc \in {"analyzed", "planned", "structured", "executed", "reviewed"}
  /\ aborted
  /\ pc' = "returned"
  /\ UNCHANGED <<serverVars, provider, aborted, runVars, frameVars, localVars>>

\* faulty variant: a review that never passed fails the run
ExecuteCompleteIfPassed ==
  /\ pc = "reviewed"
  /\ ~aborted
  /\ Commit(IF passed
            THEN SendEvent(SetPhase(Cur, "completed"), CompleteEvent)
            ELSE SendEvent(SetPhase(Cur, "failed"),
                           ErrorEvent("Max supervisor retries reached")))
  /\ pc' = "returned"
  /\ UNCHANGED <<serverVars, provider, aborted, frameVars, localVars>>

\* the end of execute's try block
ExecuteComplete ==
  /\ pc = "reviewed"
  /\ ~aborted
  /\ Commit(SendEvent(SetPhase(Cur, "completed"), CompleteEvent))
  /\ pc' = "returned"
  /\ UNCHANGED <<serverVars, provider, aborted, frameVars, localVars>>

AnalyzePhase ==
  /\ pc = "start"
  /\ provider # "custom"
  /\ LET o == SetPhase(Cur, "analyzing")
     IN Commit(o) /\ CallStreamChat(o, "analyzer")
  /\ UNCHANGED <<serverVars, provider, aborted, localVars>>

AnalyzePhaseStore ==
  /\ pc = "ret"
  /\ role = "analyzer"
  /\ Commit([Cur EXCEPT !.analysisResult = ret])
  /\ pc' = "analyzed"
  /\ UNCHANGED <<serverVars, provider, aborted, frameVars, localVars>>

PlanningPhase ==
  /\ pc = "analyzed"
  /\ ~aborted
  /\ LET o == SetPhase(Cur, "planning")
     IN Commit(o) /\ CallStreamChat(o, "planner")
  /\ UNCHANGED <<serverVars, provider, aborted, localVars>>

PlanningPhaseStore ==
  /\ pc = "ret"
  /\ role = "planner"
  /\ Commit([Cur EXCEPT !.planningResult = ret])
  /\ pc' = "planned"
  /\ UNCHANGED <<serverVars, provider, aborted, frameVars, localVars>>

StructuringPhase ==
  /\ pc = "planned"
  /\ ~aborted
  /\ LET o == SetPhase(Cur, "structuring")
     IN Commit(o) /\ CallStreamChat(o, "structurer")
  /\ UNCHANGED <<serverVars, provider, aborted, localVars>>

StructuringPhaseParse ==
  /\ pc = "ret"
  /\ role = "structurer"
  /\ Commit(ParseTasks(Cur, ret))
  /\ pc' = "structured"
  /\ UNCHANGED <<serverVars, provider, aborted, frameVars, localVars>>

\* faulty variant: executionPhase announces the reviewing phase
ExecutionPhaseAsReviewing ==
  /\ pc = "structured"
  /\ ~aborted
  /\ Commit(SetPhase(Cur, "reviewing"))
  /\ sortedTasks' = SortTasks(tasks)
  /\ idx' = 1
  /\ pc' = "task_loop"
  /\ UNCHANGED <<serverVars, provider, aborted, frameVars, passed, retries>>

\* faulty variant: run.tasks itself is sorted
ExecutionPhaseSortsInPlace ==
  /\ pc = "structured"
  /\ ~aborted
  /\ Commit([SetPhase(Cur, "executing") EXCEPT
              !.tasks = [k \in 1..Len(tasks) |-> tasks[SortTasks(tasks)[k]]]])
  /\ sortedTasks' = [k \in 1..Len(tasks) |-> k]
  /\ idx' = 1
  /\ pc' = "task_loop"
  /\ UNCHANGED <<serverVars, provider, aborted, frameVars, passed, retries>>

ExecutionPhase ==
  /\ pc = "structured"
  /\ ~aborted
  /\ Commit(SetPhase(Cur, "executing"))
  /\ sortedTasks' = SortTasks(tasks)
  /\ idx' = 1
  /\ pc' = "task_loop"
  /\ UNCHANGED <<serverVars, provider, aborted, frameVars, passed, retries>>

SetStatus(o, i, status) == [o EXCEPT !.tasks[i].status = status]
PushTaskLog(o, i, entry) == [o EXCEPT !.tasks[i].logs = Append(@, entry)]

\* executeTask up to the task-analyzer call
ExecuteTaskBegin(o, i) ==
  LET o1 == SetStatus([o EXCEPT !.currentTaskId = o.tasks[i].id], i, "analyzing")
  IN SendEvent(o1, TaskEvent("task_update", o1.tasks[i]))

\* faulty variant: the task goes straight to reviewing
ExecuteTaskSkipsCoding(o, i) ==
  LET o1 == SetStatus(PushTaskLog(o, i, "Analysis"), i, "reviewing")
  IN SendEvent(o1, TaskEvent("task_update", o1.tasks[i]))

\* executeTask between the task-analyzer call and the worker call
ExecuteTaskToCoding(o, i) ==
  LET o1 == SetStatus(PushTaskLog(o, i, "Analysis"), i, "coding")
  IN SendEvent(o1, TaskEvent("task_update", o1.tasks[i]))

\* faulty variant: the event is sent before the status is set
ExecuteTaskToReviewingStale(o, i) ==
  LET o1 == PushTaskLog(o, i, "Implementation completed")
  IN SetStatus(SendEvent(o1, TaskEvent("task_update", o1.tasks[i])), i, "reviewing")

\* executeTask between the worker call and checkSyntax
ExecuteTaskToReviewing(o, i) ==
  LET o1 == SetStatus(PushTaskLog(o, i, "Implementation completed"), i, "reviewing")
  IN SendEvent(o1, TaskEvent("task_update", o1.tasks[i]))

\* faulty variant: the task is reported complete but its status is left alone
ExecuteTaskFinishUnmarked(o, i) ==
  LET o1 == [o EXCEPT !.tasks[i].completedAt = "set"]
  IN SendEvent(o1, TaskEvent("task_complete", o1.tasks[i]))

\* faulty variant: the task is marked done without its completion time
ExecuteTaskFinishUnstamped(o, i) ==
  LET o1 == SetStatus(o, i, "done")
  IN SendEvent(o1, TaskEvent("task_complete", o1.tasks[i]))

\* the end of executeTask
ExecuteTaskFinish(o, i) ==
  LET o1 == [SetStatus(o, i, "done") EXCEPT !.tasks[i].completedAt = "set"]
  IN SendEvent(o1, TaskEvent("task_complete", o1.tasks[i]))

\* faulty variant: the loop does not look at the abort flag
ExecuteTaskIgnoringAbort ==
  /\ pc = "task_loop"
  /\ idx <= Len(sortedTasks)
  /\ LET o == ExecuteTaskBegin(Cur, sortedTasks[idx])
     IN Commit(o) /\ CallStreamChat(o, "task_analyzer")
  /\ UNCHANGED <<serverVars, provider, aborted, localVars>>

\* the for loop of executionPhase takes the next task
ExecuteTask ==
  /\ pc = "task_loop"
  /\ idx <= Len(sortedTasks)
  /\ ~aborted
  /\ LET o == ExecuteTaskBegin(Cur, sortedTasks[idx])
     IN Commit(o) /\ CallStreamChat(o, "task_analyzer")
  /\ UNCHANGED <<serverVars, provider, aborted, localVars>>

\* faulty variant: the loop ends after its first task
ExecutionPhaseEndEarly ==
  /\ pc = "task_loop"
  /\ (idx > 1 \/ aborted)
  /\ pc' = "executed"
  /\ UNCHANGED <<serverVars, provider, aborted, runVars, frameVars, localVars>>

\* the for loop of executionPhase ends, or breaks on the abort flag
ExecutionPhaseEnd ==
  /\ pc = "task_loop"
  /\ (idx > Len(sortedTasks) \/ aborted)
  /\ pc' = "executed"
  /\ UNCHANGED <<serverVars, provider, aborted, runVars, frameVars, localVars>>

ExecuteTaskCode ==
  /\ pc = "ret"
  /\ role = "task_analyzer"
  /\ LET o == ExecuteTaskToCoding(Cur, sortedTasks[idx])
     IN Commit(o) /\ CallStreamChat(o, "worker")
  /\ UNCHANGED <<serverVars, provider, aborted, localVars>>

\* the worker's implementation came back: on to "await this.checkSyntax"
ExecuteTaskReview ==
  /\ pc = "ret"
  /\ role = "worker"
  /\ Commit(ExecuteTaskToReviewing(Cur, sortedTasks[idx]))
  /\ pc' = "lint"
  /\ UNCHANGED <<serverVars, provider, aborted, frameVars, localVars>>

\* checkSyntax resolved: one fix call when it found issues, then the task is done
ExecuteTaskLinted ==
  /\ pc = "lint"
  /\ LET i == sortedTasks[idx]
     IN IF Len(CheckSyntax(ret)) > 0
        THEN LET o == PushTaskLog(Cur, i, "Syntax issues found")
             IN /\ Commit(o)
                /\ CallStreamChat(o, "syntax_fix")
                /\ UNCHANGED idx
        ELSE /\ Commit(ExecuteTaskFinish(Cur, i))
             /\ idx' = idx + 1
             /\ pc' = "task_loop"
             /\ UNCHANGED frameVars
  /\ UNCHANGED <<serverVars, provider, aborted, sortedTasks, passed, retries>>

\* faulty variant: the fix is checked again, and fixed again when it fails
ExecuteTaskFixedRechecks ==
  /\ pc = "ret"
  /\ role = "syntax_fix"
  /\ pc' = "lint"
  /\ UNCHANGED <<serverVars, provider, aborted, runVars, frameVars, localVars>>

ExecuteTaskFixed ==
  /\ pc = "ret"
  /\ role = "syntax_fix"
  /\ Commit(ExecuteTaskFinish(Cur, sortedTasks[idx]))
  /\ idx' = idx + 1
  /\ pc' = "task_loop"
  /\ UNCHANGED <<serverVars, provider, aborted, frameVars, sortedTasks, passed, retries>>

(* ------------------------------ reviewPhase ----------------------------- *)
\* feedback.includes(marker)
Includes(text, marker) ==
  \E i \in 1..Len(text) :
    /\ i + Len(marker) - 1 <= Len(text)
    /\ SubSeq(text, i, i + Len(marker) - 1) = marker

ReviewPhase ==
  /\ pc = "executed"
  /\ ~aborted
  /\ Commit(SetPhase(Cur, "reviewing"))
  /\ passed' = FALSE
  /\ retries' = 0
  /\ pc' = "review_loop"
  /\ UNCHANGED <<serverVars, provider, aborted, frameVars, sortedTasks, idx>>

\* faulty variant: the loop goes on after the supervisor has passed
ReviewContinuesAfterPass(p, r, a) == r < maxSupervisorRetries /\ ~a

\* faulty variant: one review more than maxSupervisorRetries
ReviewContinuesOneMore(p, r, a) == ~p /\ r <= maxSupervisorRetries /\ ~a

\* faulty variant: the number of reviews is not bounded
ReviewContinuesUnbounded(p, r, a) == ~p /\ ~a

\* the while condition of reviewPhase
ReviewContinues(p, r, a) == ~p /\ r < maxSupervisorRetries /\ ~a

\* faulty variant: a worker fix follows every failed review
FixFollowsAlways(r) == TRUE

\* whether a worker fix follows the r-th failed review
FixFollows(r) == r < maxSupervisorRetries

\* the loop test: one more supervisor call, or the end of reviewPhase
ReviewLoop ==
  /\ pc = "review_loop"
  /\ IF ReviewContinues(passed, retries, aborted)
     THEN Commit(Cur) /\ CallStreamChat(Cur, "supervisor")
     ELSE /\ Commit(IF ~passed
                    THEN Log(Cur, "warn", <<"Max supervisor retries reached">>)
                    ELSE Cur)
          /\ pc' = "reviewed"
          /\ UNCHANGED frameVars
  /\ UNCHANGED <<serverVars, provider, aborted, localVars>>

\* the loop body after the supervisor's answer
ReviewPhaseFeedback ==
  /\ pc = "ret"
  /\ role = "supervisor"
  /\ LET o == SendEvent([Cur EXCEPT !.supervisorFeedback = ret],
                        [StreamingChunk("supervisor_feedback") EXCEPT !.content = ret])
     IN IF Includes(ret, PassedMarker)
        THEN /\ Commit(Log([o EXCEPT !.supervisorPassCount = @ + 1], "info",
                           <<"Supervisor approved the implementation">>))
             /\ passed' = TRUE
             /\ pc' = "review_loop"
             /\ UNCHANGED <<retries, frameVars>>
        ELSE LET o1 == Log(o, "info", <<"Supervisor requested fixes", retries + 1>>)
             IN /\ retries' = retries + 1
                /\ Commit(o1)
                /\ UNCHANGED passed
                /\ IF FixFollows(retries + 1)
                   THEN CallStreamChat(o1, "review_fix")
                   ELSE pc' = "review_loop" /\ UNCHANGED frameVars
  /\ UNCHANGED <<serverVars, provider, aborted, sortedTasks, idx>>

ReviewPhaseFixed ==
  /\ pc = "ret"
  /\ role = "review_fix"
  /\ pc' = "review_loop"
  /\ UNCHANGED <<serverVars, provider, aborted, runVars, frameVars, localVars>>

(* ============================ server/sandbox.ts ========================= *)
(* A path, a command line or a file content is a string: a sequence of      *)
(* atoms, where "/" and " " are atoms of their own and a name may be made   *)
(* of several atoms ("app2" is <<"app", "2">>), so that a prefix or a       *)
(* substring of a name is visible to startsWith and includes.               *)

ALLOWED_COMMANDS ==
  {"ls", "cat", "head", "tail", "grep", "find", "wc", "npm", "npx", "node", "tsc",
   "eslint", "prettier"}

\* process.cwd() of the server
SANDBOX_ROOT == <<"/", "srv", "/", "app">>
MAX_OUTPUT_LENGTH == 10000

SandboxCommandTypes ==
  {"read_file", "write_file", "delete_file", "list_files", "execute_shell",
   "search_code", "get_logs", "lint_check", "get_preview"}

(* ---------------------------- the path module --------------------------- *)
\* str.startsWith(prefix)
StartsWith(str, prefix) ==
  Len(prefix) <= Len(str) /\ SubSeq(str, 1, Len(prefix)) = prefix

\* str.endsWith(suffix)
EndsWith(str, suffix) ==
  Len(suffix) <= Len(str) /\ SubSeq(str, Len(str) - Len(suffix) + 1, Len(str)) = suffix

\* str.split(sep), for a separator of one atom
RECURSIVE SplitOn(_, _)
SplitOn(str, sep) ==
  IF Positions(str, sep) = {} THEN <<str>>
  ELSE LET i == MinOf(Positions(str, sep))
       IN <<SubSeq(str, 1, i - 1)>> \o SplitOn(SubSeq(str, i + 1, Len(str)), sep)

\* the parts joined by "/"
RECURSIVE JoinPath(_)
JoinPath(parts) ==
  IF parts = <<>> THEN <<>>
  ELSE IF Len(parts) = 1 THEN parts[1]
  ELSE parts[1] \o <<"/">> \o JoinPath(Tail(parts))

\* normalizeString of node's path module, on the parts of a path: empty parts
\* and "." are dropped, ".." removes the part before it; above the start it is
\* kept for a relative path and dropped for an absolute one
RECURSIVE NormalizeParts(_, _, _)
NormalizeParts(parts, acc, allowAboveRoot) ==
  IF parts = <<>> THEN acc
  ELSE LET h == Head(parts)
           t == Tail(parts)
       IN IF h = <<>> \/ h = <<".">> THEN NormalizeParts(t, acc, allowAboveRoot)
          ELSE IF h = <<"..">>
          THEN IF acc # <<>> /\ Last(acc) # <<"..">>
               THEN NormalizeParts(t, SubSeq(acc, 1, Len(acc) - 1), allowAboveRoot)
               ELSE IF allowAboveRoot
               THEN NormalizeParts(t, Append(acc, h), allowAboveRoot)
               ELSE NormalizeParts(t, acc, allowAboveRoot)
          ELSE NormalizeParts(t, Append(acc, h), allowAboveRoot)

IsAbsolute(p) == Len(p) > 0 /\ p[1] = "/"

\* path.normalize(p) once the parts of p are normalized and joined to body
NormalizeEnds(p, body) ==
  IF body = <<>>
  THEN IF IsAbsolute(p) THEN <<"/">>
       ELSE IF Last(p) = "/" THEN <<".", "/">> ELSE <<".">>
  ELSE (IF IsAbsolute(p) THEN <<"/">> ELSE <<>>) \o body
       \o (IF Last(p) = "/" THEN <<"/">> ELSE <<>>)

\* path.normalize(p)
Normalize(p) ==
  IF p = <<>> THEN <<".">>
  ELSE NormalizeEnds(p, JoinPath(NormalizeParts(SplitOn(p, "/"), <<>>, ~IsAbsolute(p))))

\* path.resolve(from, to), for an absolute from
Resolve(from, to) ==
  LET full == IF IsAbsolute(to) THEN to ELSE from \o <<"/">> \o to
  IN <<"/">> \o JoinPath(NormalizeParts(SplitOn(full, "/"), <<>>, FALSE))

\* path.dirname(p), for a resolved path
Dirname(p) ==
  LET slashes == Positions(p, "/")
  IN IF slashes = {} THEN <<".">>
     ELSE IF MaxOf(slashes) = 1 THEN <<"/">>
     ELSE SubSeq(p, 1, MaxOf(slashes) - 1)

\* path.join(a, b)
Join(a, b) == Normalize(a \o <<"/">> \o b)

(* ------------------------- results and exceptions ----------------------- *)
\* a SandboxResult; a field that is absent holds UndefinedText
SandboxResult(success, data, error, stack) ==
  [success |-> success, data |-> data, error |-> error, logs |-> stack]

Succeeded(data) == SandboxResult(TRUE, data, UndefinedText, UndefinedText)
Failed(error) == SandboxResult(FALSE, UndefinedText, error, UndefinedText)

\* how a function of the sandbox ends: it returns a result or throws an Error
Return(b, r) == [box |-> b, threw |-> FALSE, error |-> <<>>, result |-> r]
Throw(b, error) ==
  [box |-> b, threw |-> TRUE, error |-> error, result |-> Failed(error)]

TypeError == <<"TypeError">>
EISDIR == <<"EISDIR: illegal operation on a directory">>
ENOTDIR == <<"ENOTDIR: not a directory">>

PathTraversalError == <<"Path traversal not allowed">>
ForbiddenError(dir) == <<"Access to", dir, "is not allowed">>

(* ------------------------------ sanitizePath ---------------------------- *)
\* the first denylist entry, in the order of the array, that the path includes
FirstForbidden(resolved) ==
  IF Includes(resolved, <<"node_modules">>) THEN "node_modules"
  ELSE IF Includes(resolved, <<".env">>) THEN ".env"
  ELSE IF Includes(resolved, <<".git">>) THEN ".git"
  ELSE IF Includes(resolved, <<"dist">>) THEN "dist"
  ELSE ""

\* the two checks of sanitizePath on the resolved path
CheckResolved(resolved) ==
  IF ~StartsWith(resolved, SANDBOX_ROOT)
  THEN [threw |-> TRUE, error |-> PathTraversalError, value |-> <<>>]
  ELSE IF FirstForbidden(resolved) # ""
  THEN [threw |-> TRUE, error |-> ForbiddenError(FirstForbidden(resolved)),
        value |-> <<>>]
  ELSE [threw |-> FALSE, error |-> <<>>, value |-> resolved]

\* sanitizePath(filePath): the resolved path, or the Error it throws
sanitizePath(filePath) ==
  IF filePath = UndefinedText
  THEN [threw |-> TRUE, error |-> TypeError, value |-> <<>>]
  ELSE CheckResolved(Resolve(SANDBOX_ROOT, Normalize(filePath)))

(* ------------------------------ isCommandAllowed ------------------------ *)
\* faulty variant: any token ending in an allowed name passes
isCommandAllowedSuffix(cmd) ==
  LET baseCommand == SplitOn(cmd, " ")[1]
  IN \E allowed \in ALLOWED_COMMANDS : EndsWith(baseCommand, <<allowed>>)

isCommandAllowed(cmd) ==
  LET baseCommand == SplitOn(cmd, " ")[1]
  IN \E allowed \in ALLOWED_COMMANDS :
       baseCommand = <<allowed>> \/ EndsWith(baseCommand, <<"/", allowed>>)

(* ------------------------------ the filesystem -------------------------- *)
Dir == [kind |-> "dir", content |-> <<>>]
File(content) == [kind |-> "file", content |-> content]

\* the state one invocation works on: the disk, and what the invocation did
Box ==
  [disk |-> disk, accesses |-> {}, spawned |-> {}, checked |-> {}]

\* an fs call on a path
Touch(b, op, p) == [b EXCEPT !.accesses = @ \cup {[op |-> op, path |-> p]}]

\* sanitizePath returned p
Checked(b, p) == [b EXCEPT !.checked = @ \cup {p}]

\* exec is given a command line
Spawn(b, line) == [b EXCEPT !.spawned = @ \cup {line}]

ExistsSync(b, p) == p \in DOMAIN b.disk
IsDirectory(b, p) == b.disk[p].kind = "dir"

\* p and the directories above it, up to "/"
RECURSIVE Ancestors(_)
Ancestors(p) == IF Len(p) <= 1 THEN {p} ELSE {p} \cup Ancestors(Dirname(p))

\* fs.mkdirSync(dir, {recursive: true}) can be done: nothing on the way is a file
CanMkdir(b, dir) ==
  \A a \in Ancestors(dir) : ExistsSync(b, a) => IsDirectory(b, a)

MkdirSync(b, dir) ==
  [b EXCEPT !.disk = [a \in Ancestors(dir) \ DOMAIN b.disk |-> Dir] @@ @]

\* faulty variant: the content is appended to what the file holds
WriteFileSyncAppend(b, p, content) ==
  [b EXCEPT !.disk = (p :> File((IF p \in DOMAIN @ THEN @[p].content ELSE <<>>)
                                  \o content)) @@ @]

WriteFileSync(b, p, content) == [b EXCEPT !.disk = (p :> File(content)) @@ @]

UnlinkSync(b, p) == [b EXCEPT !.disk = [q \in DOMAIN @ \ {p} |-> @[q]]]

\* the entries of a directory, as the resolved paths of its children
ReaddirSync(b, dir) == {p \in DOMAIN b.disk : p # dir /\ Dirname(p) = dir}

\* the last part of a resolved path
Basename(p) == SubSeq(p, MaxOf(Positions(p, "/")) + 1, Len(p))

(* ------------------------------ the operations -------------------------- *)
FileNotFound(filePath) == <<"File not found:">> \o filePath
DirectoryNotFound(dirPath) == <<"Directory not found:">> \o dirPath

\* readFile after sanitizePath ended with s
readFileAt(b, filePath, s) ==
  IF s.threw THEN Throw(b, s.error)
  ELSE LET safePath == s.value
           b1 == Touch(Checked(b, safePath), "existsSync", safePath)
           b2 == Touch(b1, "readFileSync", safePath)
       IN IF ~ExistsSync(b1, safePath)
          THEN Return(b1, Failed(FileNotFound(filePath)))
          ELSE IF IsDirectory(b2, safePath) THEN Throw(b2, EISDIR)
          ELSE Return(b2, Succeeded(b2.disk[safePath].content))

readFile(b, filePath) == readFileAt(b, filePath, sanitizePath(filePath))

\* writeFile from "fs.writeFileSync(safePath, content)" on
WriteContent(b, filePath, safePath, content) ==
  LET b1 == Touch(b, "writeFileSync", safePath)
  IN IF content = UndefinedText THEN Throw(b1, TypeError)
     ELSE IF ~IsDirectory(b1, Dirname(safePath)) THEN Throw(b1, ENOTDIR)
     ELSE IF ExistsSync(b1, safePath) /\ IsDirectory(b1, safePath)
     THEN Throw(b1, EISDIR)
     ELSE Return(WriteFileSync(b1, safePath, content),
                 Succeeded(<<"written">> \o filePath))

\* writeFile after sanitizePath ended with s
writeFileAt(b, filePath, content, s) ==
  IF s.threw THEN Throw(b, s.error)
  ELSE LET safePath == s.value
           dir == Dirname(safePath)
           b1 == Touch(Checked(b, safePath), "existsSync", dir)
       IN IF ExistsSync(b1, dir)
          THEN WriteContent(b1, filePath, safePath, content)
          ELSE IF ~CanMkdir(b1, dir)
          THEN Throw(Touch(b1, "mkdirSync", dir), ENOTDIR)
          ELSE WriteContent(MkdirSync(Touch(b1, "mkdirSync", dir), dir),
                            filePath, safePath, content)

writeFile(b, filePath, content) ==
  writeFileAt(b, filePath, content, sanitizePath(filePath))

\* faulty variant: a missing file is reported as deleted
deleteFileAtUnchecked(b, filePath, s) ==
  IF s.threw THEN Throw(b, s.error)
  ELSE LET safePath == s.value
           b1 == Touch(Checked(b, safePath), "existsSync", safePath)
           b2 == Touch(b1, "unlinkSync", safePath)
       IN IF ExistsSync(b1, safePath) /\ IsDirectory(b2, safePath) THEN Throw(b2, EISDIR)
          ELSE Return(UnlinkSync(b2, safePath),
                      Succeeded(<<"deleted">> \o filePath))

\* deleteFile after sanitizePath ended with s
deleteFileAt(b, filePath, s) ==
  IF s.threw THEN Throw(b, s.error)
  ELSE LET safePath == s.value
           b1 == Touch(Checked(b, safePath), "existsSync", safePath)
           b2 == Touch(b1, "unlinkSync", safePath)
       IN IF ~ExistsSync(b1, safePath)
          THEN Return(b1, Failed(FileNotFound(filePath)))
          ELSE IF IsDirectory(b2, safePath) THEN Throw(b2, EISDIR)
          ELSE Return(UnlinkSync(b2, safePath),
                      Succeeded(<<"deleted">> \o filePath))

deleteFile(b, filePath) == deleteFileAt(b, filePath, sanitizePath(filePath))

\* one entry of list_files
DirEntry(b, dirPath, p) ==
  [name |-> Basename(p),
   type |-> IF IsDirectory(b, p) THEN "directory" ELSE "file",
   path |-> Join(dirPath, Basename(p))]

\* listFiles after sanitizePath ended with s
listFilesAt(b, dirPath, s) ==
  IF s.threw THEN Throw(b, s.error)
  ELSE LET safePath == s.value
           b1 == Touch(Checked(b, safePath), "existsSync", safePath)
           b2 == Touch(b1, "readdirSync", safePath)
       IN IF ~ExistsSync(b1, safePath)
          THEN Return(b1, Failed(DirectoryNotFound(dirPath)))
          ELSE IF ~IsDirectory(b2, safePath) THEN Throw(b2, ENOTDIR)
          ELSE Return(b2, Succeeded({DirEntry(b2, dirPath, p) :
                                       p \in ReaddirSync(b2, safePath)}))

listFiles(b, dirPath) == listFilesAt(b, dirPath, sanitizePath(dirPath))

\* what exec may resolve or reject with: exit code, stdout, stderr
CommandFailed == <<"Command failed">>

\* faulty variant: the output is returned whole
executeShellUntruncated(b, cmd, exec) ==
  IF cmd = UndefinedText THEN Throw(b, TypeError)
  ELSE IF ~isCommandAllowed(cmd)
  THEN Return(b, Failed(<<"Command not allowed:">> \o SplitOn(cmd, " ")[1]))
  ELSE LET b1 == Spawn(b, cmd)
       IN IF exec.code = 0
          THEN Return(b1, SandboxResult(TRUE, exec.stdout \o exec.stderr, UndefinedText,
                            IF exec.stderr # <<>> THEN <<exec.stderr>>
                            ELSE UndefinedText))
          ELSE Return(b1, SandboxResult(FALSE, exec.stdout, CommandFailed \o cmd,
                            <<exec.stderr>>))

\* The programs /bin/sh, which exec() hands the line to, starts for it: the
\* first word of the line and the first word after every control operator or
\* opened command substitution.
ShellOperators == {"&&", "||", "|", ";", "$("}

\* the words of the line; a closing parenthesis ends a word
ShellWords(line) ==
  SelectSeq(SplitOn(SelectSeq(line, LAMBDA a : a # ")"), " "), LAMBDA w : w # <<>>)

ShellPrograms(line) ==
  LET words == ShellWords(line)
      starts == {j \in 1..Len(words) :
                   /\ words[j] \notin {<<op>> : op \in ShellOperators}
                   /\ (j = 1 \/ words[j - 1] \in {<<op>> : op \in ShellOperators})}
      opened == {j \in 1..Len(words) : Len(words[j]) > 1 /\ words[j][1] = "$("}
  IN {words[j] : j \in starts \ opened} \cup {Tail(words[j]) : j \in opened}

executeShell(b, cmd, exec) ==
  IF cmd = UndefinedText THEN Throw(b, TypeError)
  ELSE IF ~isCommandAllowed(cmd)
  THEN Return(b, Failed(<<"Command not allowed:">> \o SplitOn(cmd, " ")[1]))
  ELSE LET b1 == Spawn(b, cmd)
       IN IF exec.code = 0
          THEN Return(b1, SandboxResult(TRUE,
                            Slice(exec.stdout \o exec.stderr, 0, MAX_OUTPUT_LENGTH),
                            UndefinedText,
                            IF exec.stderr # <<>> THEN <<exec.stderr>>
                            ELSE UndefinedText))
          ELSE Return(b1, SandboxResult(FALSE,
                            Slice(exec.stdout, 0, MAX_OUTPUT_LENGTH),
                            CommandFailed \o cmd,
                            <<Slice(exec.stderr, 0, MAX_OUTPUT_LENGTH)>>))

\* pattern.replace(/['"]/g, "")
RECURSIVE EscapePattern(_)
EscapePattern(pattern) ==
  IF pattern = <<>> THEN <<>>
  ELSE (IF Head(pattern) \in {"'", "DQUOTE"} THEN <<>> ELSE <<Head(pattern)>>)
       \o EscapePattern(Tail(pattern))

\* the command line searchCode gives to exec
GrepLine(pattern, safePath) ==
  <<"grep", " ", "-rn", " ", "DQUOTE">> \o EscapePattern(pattern)
    \o <<"DQUOTE", " ">> \o safePath

\* lines.filter(Boolean)
RECURSIVE NonEmpty(_)
NonEmpty(lines) ==
  IF lines = <<>> THEN <<>>
  ELSE (IF Head(lines) = <<>> THEN <<>> ELSE <<Head(lines)>>) \o NonEmpty(Tail(lines))

\* stdout.split("\n").filter(Boolean).slice(0, 50)
GrepMatches(stdout) == Slice(NonEmpty(SplitOn(stdout, "NL")), 0, 50)

\* searchCode after sanitizePath ended with s
searchCodeAt(b, pattern, exec, s) ==
  IF s.threw THEN Throw(b, s.error)
  ELSE IF pattern = UndefinedText THEN Throw(Checked(b, s.value), TypeError)
  ELSE LET line == GrepLine(pattern, s.value)
           b1 == Spawn(Checked(b, s.value), line)
       IN IF exec.code = 0 THEN Return(b1, Succeeded(GrepMatches(exec.stdout)))
          ELSE IF exec.code = 1 THEN Return(b1, Succeeded(<<>>))
          ELSE Return(b1, Failed(CommandFailed \o line))

\* searchPath defaults to "."
searchCode(b, pattern, searchPath, exec) ==
  searchCodeAt(b, pattern, exec,
               sanitizePath(IF searchPath = UndefinedText THEN <<".">> ELSE searchPath))

\* the directories getLogs looks into
LogDirs == {<<"/", "tmp", "/", "logs">>, <<"logs">>, <<".logs">>}

RECURSIVE JoinLines(_)
JoinLines(lines) ==
  IF lines = <<>> THEN <<>>
  ELSE IF Len(lines) = 1 THEN lines[1]
  ELSE lines[1] \o <<"NL">> \o JoinLines(Tail(lines))

\* content.split("\n").slice(-lines)
RecentLines(content, lines) ==
  LET all == SplitOn(content, "NL")
  IN SubSeq(all, IF Len(all) > lines THEN Len(all) - lines + 1 ELSE 1, Len(all))

\* the fs calls getLogs makes on one log directory
LogAccesses(b, fullPath) ==
  {[op |-> "existsSync", path |-> fullPath]}
  \cup (IF ExistsSync(b, fullPath)
        THEN {[op |-> "statSync", path |-> fullPath]}
        ELSE {})
  \cup (IF ExistsSync(b, fullPath) /\ IsDirectory(b, fullPath)
        THEN {[op |-> "readdirSync", path |-> fullPath]}
             \cup {[op |-> "statSync", path |-> p] : p \in ReaddirSync(b, fullPath)}
             \cup {[op |-> "readFileSync", path |-> p] :
                     p \in {q \in ReaddirSync(b, fullPath) : ~IsDirectory(b, q)}}
        ELSE {})

\* the entries getLogs collects from one log directory (a directory of the
\* model holds at most five files, so files.slice(-5) keeps them all)
LogEntries(b, fullPath, lines) ==
  IF ExistsSync(b, fullPath) /\ IsDirectory(b, fullPath)
  THEN {<<"===">> \o Basename(p) \o <<"===", "NL">>
          \o JoinLines(RecentLines(b.disk[p].content, lines)) :
          p \in {q \in ReaddirSync(b, fullPath) : ~IsDirectory(b, q)}}
  ELSE {}

getLogs(b, lines) ==
  LET paths == {Join(SANDBOX_ROOT, logDir) : logDir \in LogDirs}
      found == UNION {LogEntries(b, p, lines) : p \in paths}
      b1 == [b EXCEPT !.accesses = @ \cup UNION {LogAccesses(b, p) : p \in paths}]
  IN Return(b1, Succeeded(IF found # {} THEN found ELSE {<<"No logs found">>}))

\* the issues lintCheck finds on line i
LineIssues(line, i, filePath) ==
  (IF Includes(line, <<"console.log">>) /\ ~Includes(filePath, <<"test">>)
   THEN << <<"Line", i, "console.log statement found">> >> ELSE <<>>)
  \o (IF Includes(line, <<"any">>) /\ EndsWith(filePath, <<".ts">>)
      THEN << <<"Line", i, "'any' type usage">> >> ELSE <<>>)
  \o (IF Len(line) > 120
      THEN << <<"Line", i, "Line exceeds 120 characters">> >> ELSE <<>>)

BraceIssues(content) ==
  IF Count(content, "{") # Count(content, "}")
  THEN << <<"Mismatched braces">> >> ELSE <<>>

LintIssues(content, filePath) ==
  LET lines == SplitOn(content, "NL")
  IN Flatten([i \in 1..Len(lines) |-> LineIssues(lines[i], i, filePath)])
     \o BraceIssues(content)

\* lintCheck from the checks on the content on
LintResult(issues) ==
  SandboxResult(Len(issues) = 0,
                IF Len(issues) = 0 THEN <<"No issues found">> ELSE issues,
                UndefinedText, UndefinedText)

\* lintCheck after sanitizePath ended with s
lintCheckAt(b, filePath, s) ==
  IF s.threw THEN Throw(b, s.error)
  ELSE LET safePath == s.value
           b1 == Touch(Checked(b, safePath), "existsSync", safePath)
           b2 == Touch(b1, "readFileSync", safePath)
       IN IF ~ExistsSync(b1, safePath)
          THEN Return(b1, Failed(FileNotFound(filePath)))
          ELSE IF IsDirectory(b2, safePath) THEN Throw(b2, EISDIR)
          ELSE Return(b2, LintResult(LintIssues(b2.disk[safePath].content,
                                                filePath)))

lintCheck(b, filePath) == lintCheckAt(b, filePath, sanitizePath(filePath))

getPreview(b) == Return(b, Succeeded(<<"http://localhost", "running">>))

(* --------------------------- executeSandboxCommand ---------------------- *)
\* faulty variant: an unknown type is answered like get_preview
UnknownCommandTypeAsPreview(b, type) == getPreview(b)

\* the default branch of the switch
UnknownCommandType(b, type) == Return(b, Failed(<<"Unknown command type:", type>>))

\* faulty variant: the Error is left to the caller
CatchNothing(outcome) == outcome

\* the catch of executeSandboxCommand: the Error becomes a result
CatchError(outcome) ==
  IF outcome.threw
  THEN Return(outcome.box,
              SandboxResult(FALSE, UndefinedText, outcome.error, <<"stack">>))
  ELSE outcome

\* args.path || "."
PathOrDot(p) == IF p = UndefinedText \/ p = <<>> THEN <<".">> ELSE p

\* args.lines || 50
LinesOrDefault(n) == IF n = 0 THEN 50 ELSE n

executeSandboxCommand(b, cmd, exec) ==
  LET type == cmd.type
      args == cmd.args
  IN CatchError(
       CASE type = "read_file" -> readFile(b, args.path)
         [] type = "write_file" -> writeFile(b, args.path, args.content)
         [] type = "delete_file" -> deleteFile(b, args.path)
         [] type = "list_files" -> listFiles(b, PathOrDot(args.path))
         [] type = "execute_shell" -> executeShell(b, args.command, exec)
         [] type = "search_code" -> searchCode(b, args.pattern, args.path, exec)
         [] type = "get_logs" -> getLogs(b, LinesOrDefault(args.lines))
         [] type = "lint_check" -> lintCheck(b, args.path)
         [] type = "get_preview" -> getPreview(b)
         [] OTHER -> UnknownCommandType(b, type))

(* ------------------------- what the sandbox is given -------------------- *)
PathParts ==
  {<<"..">>, <<"srv">>, <<"app">>, <<"app", "2">>, <<"a", ".ts">>, <<".env">>}

\* paths with ".", an empty part, a trailing separator, and the way out to /etc
ExtraPaths ==
  {<<".">>, <<".", "/">>, <<".", "/", "a", ".ts">>, <<"app", "/", ".", "/", "..">>,
   <<".", "/", "..", "/", "app", "2">>,
   <<"app", "/", "/", "a", ".ts">>, <<"a", ".ts", "/">>,
   <<"..", "/", "..", "/", "etc", "/", "passwd">>,
   \* denylist entries as whole components, and as parts of longer names
   <<"dist">>, <<"dist", "/", "a", ".ts">>, <<".git", "/", "config">>,
   <<"node_modules", "/", "x">>,
   <<"src", "/", "dist", "ance", ".ts">>, <<".git", "hub", "/", "workflows">>,
   <<".env", ".example">>}

\* relative and absolute paths of up to MaxPathLen parts, and no path at all
PathInputs ==
  {JoinPath(parts) : parts \in SeqsUpTo(PathParts, MaxPathLen)}
  \cup {<<"/">> \o JoinPath(parts) : parts \in SeqsUpTo(PathParts, MaxPathLen)}
  \cup ExtraPaths \cup {UndefinedText}

CmdAtoms == {"ls", "rm", " ", "/", "x"}

ShellInputs ==
  SeqsUpTo(CmdAtoms, MaxCmdLen)
  \cup {UndefinedText,
        <<"rm", " ", "-rf", " ", "/">>,
        <<"ls", " ", "-la">>,
        <<"ls", " ", "&&", " ", "rm", " ", "-rf", " ", "/">>,
        <<"ls", " ", "|", " ", "sh">>,
        <<"ls", " ", "$(", "rm", " ", "x", ")">>,
        <<"ls", " ", "x", " ", "&&", " ", "cat", " ", "x">>}

ContentInputs == {<<"x", "NL", "y">>, UndefinedText}
PatternInputs == {<<"w", "'", "DQUOTE">>, UndefinedText}
LinesInputs == {0, 1}
UnknownTypes == {"rename_file", "READ_FILE", ""}

SandboxArgs(path, content, cmdline, pattern, lines) ==
  [path |-> path, content |-> content, command |-> cmdline, pattern |-> pattern,
   lines |-> lines]

SandboxCommand(type, args) == [type |-> type, args |-> args]

PathArgs(p) == SandboxArgs(p, UndefinedText, UndefinedText, UndefinedText, 0)

PathTaking == {"read_file", "write_file", "delete_file", "list_files", "search_code",
               "lint_check"}

SandboxCommands ==
  {SandboxCommand(t, PathArgs(p)) :
     t \in {"read_file", "delete_file", "list_files", "lint_check"} \cup UnknownTypes,
     p \in PathInputs}
  \cup {SandboxCommand("write_file",
                       SandboxArgs(p, c, UndefinedText, UndefinedText, 0)) :
          p \in PathInputs, c \in ContentInputs}
  \cup {SandboxCommand("search_code",
                       SandboxArgs(p, UndefinedText, UndefinedText, pat, 0)) :
          p \in PathInputs, pat \in PatternInputs}
  \cup {SandboxCommand(t, SandboxArgs(UndefinedText, UndefinedText, c, UndefinedText, 0)) :
          t \in {"execute_shell"} \cup UnknownTypes, c \in ShellInputs}
  \cup {SandboxCommand("get_logs", SandboxArgs(UndefinedText, UndefinedText,
                                               UndefinedText, UndefinedText, n)) :
          n \in LinesInputs}
  \cup {SandboxCommand("get_preview", PathArgs(UndefinedText))}

\* what exec resolves or rejects with
NoExec == [code |-> 0, stdout |-> <<>>, stderr |-> <<>>]
ExecOutcomes ==
  {[code |-> 0, stdout |-> <<"out">>, stderr |-> <<>>],
   [code |-> 0, stdout |-> <<"out", "NL", "NL", "more">>, stderr |-> <<"warn">>],
   [code |-> 1, stdout |-> <<>>, stderr |-> <<>>],
   [code |-> 2, stdout |-> <<"partial">>, stderr |-> <<"err">>]}

\* n characters of output
Chars(c, n) == [i \in 1..n |-> c]

\* outcomes whose output is longer than MAX_OUTPUT_LENGTH: the combined output
\* of a success is one character too long, and so is the stdout of a failure
LongExecOutcomes ==
  {[code |-> 0, stdout |-> Chars("o", MAX_OUTPUT_LENGTH - 1), stderr |-> <<"e", "e">>],
   [code |-> 1, stdout |-> Chars("o", MAX_OUTPUT_LENGTH + 1),
    stderr |-> Chars("e", MAX_OUTPUT_LENGTH + 1)]}

ExecFor(cmd) ==
  IF cmd.type = "execute_shell" THEN ExecOutcomes \cup LongExecOutcomes
  ELSE IF cmd.type = "search_code" THEN ExecOutcomes
  ELSE {NoExec}

\* the project directory /srv/app, its neighbour /srv/app2, and /etc
DiskWithoutLogs ==
  (<<"/">> :> Dir)
  @@ (<<"/", "etc">> :> Dir)
  @@ (<<"/", "etc", "/", "passwd">> :> File(<<"root">>))
  @@ (<<"/", "a", ".ts">> :> File(<<"outside">>))
  @@ (<<"/", "srv">> :> Dir)
  @@ (<<"/", "srv", "/", "app", "2">> :> Dir)
  @@ (<<"/", "srv", "/", "app", "2", "/", "a", ".ts">> :> File(<<"secret">>))
  @@ (<<"/", "srv", "/", "app">> :> Dir)
  @@ (<<"/", "srv", "/", "app", "/", ".env">> :> File(<<"KEY">>))
  @@ (<<"/", "srv", "/", "app", "/", "app">> :> File(<<"{", "NL", "}">>))
  @@ (<<"/", "srv", "/", "app", "/", "a", ".ts">>
        :> File(<<"{", "console.log", "NL", "any">>))

DiskWithLogs ==
  DiskWithoutLogs
  @@ (<<"/", "srv", "/", "app", "/", "logs">> :> Dir)
  @@ (<<"/", "srv", "/", "app", "/", "logs", "/", "out.log">>
        :> File(<<"one", "NL", "two">>))
  @@ (<<"/", "srv", "/", "app", "/", "logs", "/", "old">> :> Dir)

InitialDisks == {DiskWithoutLogs, DiskWithLogs}

NoCommand == SandboxCommand("", PathArgs(UndefinedText))
NoResult == SandboxResult(FALSE, UndefinedText, UndefinedText, UndefinedText)

(* ------------------------- the sandbox specification -------------------- *)
orchestratorVars == <<provider, aborted, pc, runVars, frameVars, localVars>>

SandboxInit ==
  /\ disk = DiskWithoutLogs
  /\ command = NoCommand
  /\ result = NoResult
  /\ accesses = {}
  /\ spawned = {}
  /\ execOutcome = NoExec
  /\ checked = {}
  /\ boxPc = "idle"

\* the promise of executeSandboxCommand settles with out
Settle(cmd, out) ==
  /\ disk' = out.box.disk
  /\ accesses' = out.box.accesses
  /\ spawned' = out.box.spawned
  /\ checked' = out.box.checked
  /\ result' = out.result
  /\ boxPc' = IF out.threw THEN "rejected" ELSE "done"
  /\ command' = cmd

\* one invocation of executeSandboxCommand; exec is what the subprocess, if
\* one is spawned, ends with (what that program does to the disk is not the
\* executor's doing and is left out)
ExecuteSandboxCommand(cmd, exec) ==
  /\ boxPc = "idle"
  /\ Settle(cmd, executeSandboxCommand(Box, cmd, exec))
  /\ execOutcome' = exec
  /\ UNCHANGED <<orchestratorVars, routeVars, other>>

(* --------------------------- the specification -------------------------- *)
Providers == {"openai", "anthropic", "custom"}

(* ------------------- the route POST /api/agent/stream ------------------- *)
\* a value of the request body: its typeof, and what it holds
Absent == [type |-> "undefined", value |-> <<>>]
Str(value) == [type |-> "string", value |-> value]
Other(type, value) == [type |-> type, value |-> value]

\* !v
Falsy(v) ==
  \/ v.type \in {"undefined", "null"}
  \/ v.type = "string" /\ v.value = <<>>
  \/ v.type = "number" /\ v.value = <<"0">>

MessageInputs ==
  {Absent, Str(<<>>), Str(<<userGoal>>), Other("number", <<"0">>),
   Other("number", <<"7">>), Other("object", <<>>), Other("null", <<>>)}

ApiSettings(p, apiKey, model) ==
  [type |-> "object", value |-> <<>>, provider |-> p, apiKey |-> apiKey,
   model |-> model]

SettingsInputs ==
  {[type |-> t, value |-> v, provider |-> Absent, apiKey |-> Absent,
    model |-> Absent] : t \in {"undefined", "null", "string"}, v \in {<<>>, <<"x">>}}
  \cup {ApiSettings(p, k, m) :
          p \in {Str(<<x>>) : x \in Providers \cup {"bogus"}} \cup {Absent},
          k \in {Str(<<"key">>), Absent},
          m \in {Str(<<"model">>), Other("number", <<"7">>)}}

\* faulty variant: the settings are not validated
ParsesAlways(s) == TRUE

\* apiSettingsSchema.parse(s) does not throw
Parses(s) ==
  /\ s.type = "object"
  /\ s.provider.type = "string"
  /\ \E p \in Providers : s.provider.value = <<p>>
  /\ s.apiKey.type = "string"
  /\ s.model.type = "string"

JsonResponse(status, error) == [status |-> status, kind |-> "json", error |-> error]
EventStream == [status |-> 200, kind |-> "text/event-stream", error |-> ""]
NoResponse == [status |-> 0, kind |-> "", error |-> ""]

\* settings.provider of the orchestrator the route creates
ProviderOf(s) ==
  IF s.provider.type = "string" /\ Len(s.provider.value) = 1
  THEN s.provider.value[1] ELSE Undefined

\* the handler up to "await orchestrator.execute": the request is answered
\* with an error, or the event stream is opened and the orchestrator created
StreamRequest ==
  /\ pc = "request"
  /\ IF Falsy(reqMessage) \/ reqMessage.type # "string"
     THEN /\ httpResponse' = JsonResponse(400, "Message is required")
          /\ pc' = "rejected"
          /\ UNCHANGED provider
     ELSE IF Falsy(reqSettings)
     THEN /\ httpResponse' = JsonResponse(400, "API settings are required")
          /\ pc' = "rejected"
          /\ UNCHANGED provider
     ELSE IF ~Parses(reqSettings)
     THEN /\ httpResponse' = JsonResponse(500, "ZodError")
          /\ pc' = "rejected"
          /\ UNCHANGED provider
     ELSE /\ httpResponse' = EventStream
          /\ pc' = "start"
          /\ provider' = ProviderOf(reqSettings)
  /\ UNCHANGED <<aborted, runVars, frameVars, localVars, reqMessage, reqSettings,
                 boxVars, other>>


\* what the constructor leaves in a new orchestrator's fields
NewOrchestrator ==
  [phase |-> "idle", logs |-> <<>>, tasks |-> <<>>, currentTaskId |-> 0,
   analysisResult |-> UndefinedText, planningResult |-> UndefinedText,
   supervisorFeedback |-> UndefinedText, supervisorPassCount |-> 0,
   aborted |-> FALSE, events |-> <<>>]

\* the run and the locals of a new orchestrator; the second orchestrator is
\* constructed too and its execute() is not yet called
OrchestratorInit ==
  /\ other = [o |-> NewOrchestrator, pc |-> "start"]
  /\ phase = "idle"
  /\ logs = <<>>
  /\ tasks = <<>>
  /\ currentTaskId = 0
  /\ analysisResult = UndefinedText
  /\ planningResult = UndefinedText
  /\ supervisorFeedback = UndefinedText
  /\ supervisorPassCount = 0
  /\ aborted = FALSE
  /\ events = <<>>
  /\ role = ""
  /\ pending = <<>>
  /\ fullResponse = <<>>
  /\ ret = <<>>
  /\ err = ""
  /\ callStart = 0
  /\ calls = <<>>
  /\ sortedTasks = <<>>
  /\ idx = 0
  /\ passed = FALSE
  /\ retries = 0

\* the route has accepted a request and created the orchestrator
Init ==
  /\ provider \in Providers
  /\ pc = "start"
  /\ OrchestratorInit
  /\ reqMessage = Str(<<userGoal>>)
  /\ reqSettings = ApiSettings(Str(<<provider>>), Str(<<"key">>), Str(<<"model">>))
  /\ httpResponse = EventStream
  /\ SandboxInit

Next ==
  \/ SimplifiedExecute
  \/ SimplifiedExecuteDone
  \/ SimplifiedExecuteCatch
  \/ AnalyzePhase
  \/ AnalyzePhaseStore
  \/ PlanningPhase
  \/ PlanningPhaseStore
  \/ StructuringPhase
  \/ StructuringPhaseParse
  \/ ExecutionPhase
  \/ ExecuteTask
  \/ ExecuteTaskCode
  \/ ExecuteTaskReview
  \/ ExecuteTaskLinted
  \/ ExecuteTaskFixed
  \/ ExecutionPhaseEnd
  \/ ReviewPhase
  \/ ReviewLoop
  \/ ReviewPhaseFeedback
  \/ ReviewPhaseFixed
  \/ ExecuteComplete
  \/ ExecuteReturnAborted
  \/ ExecuteCatch
  \/ pc = "create" /\ \E content \in BlockContents : CreateBlock(content)
  \/ pc = "create" /\ \E stream \in Streams(role) : CreateStream(stream)
  \/ \E message \in ErrorMessages : CreateFails(message)
  \/ StreamChunk
  \/ StreamEnd
  \/ \E message \in ErrorMessages : StreamFails(message)
  \/ Abort

Spec == Init /\ [][Next]_vars

(* --------------------- a run whose backend calls all end ---------------- *)
\* every step of the run or of the backend; abort() is the client's choice
Progress ==
  \/ SimplifiedExecute
  \/ SimplifiedExecuteDone
  \/ SimplifiedExecuteCatch
  \/ AnalyzePhase
  \/ AnalyzePhaseStore
  \/ PlanningPhase
  \/ PlanningPhaseStore
  \/ StructuringPhase
  \/ StructuringPhaseParse
  \/ ExecutionPhase
  \/ ExecuteTask
  \/ ExecuteTaskCode
  \/ ExecuteTaskReview
  \/ ExecuteTaskLinted
  \/ ExecuteTaskFixed
  \/ ExecutionPhaseEnd
  \/ ReviewPhase
  \/ ReviewLoop
  \/ ReviewPhaseFeedback
  \/ ReviewPhaseFixed
  \/ ExecuteComplete
  \/ ExecuteReturnAborted
  \/ ExecuteCatch
  \/ pc = "create" /\ \E content \in BlockContents : CreateBlock(content)
  \/ pc = "create" /\ \E stream \in Streams(role) : CreateStream(stream)
  \/ \E message \in ErrorMessages : CreateFails(message)
  \/ StreamChunk
  \/ StreamEnd
  \/ \E message \in ErrorMessages : StreamFails(message)

\* the structurer's answers in these runs: no task, one task, two tasks, and
\* a text without an array
FairResponses ==
  {ArrayText(<<>>), ArrayText(<<"{A,low}">>), ArrayText(<<"{A,low}", "{B,critical}">>),
   <<"w">>}

AnswersFrom(responses) ==
  (pc = "create" /\ role = "structurer" /\ pc' = "stream")
    => pending' \in {Split(t) : t \in responses}

NextFair == Next /\ AnswersFrom(FairResponses)

\* The event loop runs every continuation that is ready, and a pending
\* backend call eventually resolves, delivers its next fragment or rejects.
SpecFair ==
  Init /\ [][NextFair]_vars /\ WF_vars(Progress /\ AnswersFrom(FairResponses))

(* ------------- the structuring phase on exhaustive responses ------------ *)
WideAtoms == {"w", "[", "]", ",", "null", "{A,low}", "{B,critical}"}
ProseAtoms == {"w", "[", "]", ","}

\* every response of up to MaxRespLen atoms, and every prose-then-array response
StructuringInputs ==
  SeqsUpTo(WideAtoms, MaxRespLen)
  \cup {prose \o ArrayText(e) :
          prose \in SeqsUpTo(ProseAtoms, MaxProse), e \in DistinctEntries(MaxTasks)}

WideStreams(r) ==
  IF r = "structurer" THEN {<<t>> : t \in StructuringInputs}
  ELSE IF r \in {"analyzer", "planner"} THEN Streams(r)
  ELSE {}

InitStructuring == Init /\ provider = "openai"

\* a run up to the end of structuringPhase, with no failure and no abort
NextStructuring ==
  \/ AnalyzePhase
  \/ AnalyzePhaseStore
  \/ PlanningPhase
  \/ PlanningPhaseStore
  \/ StructuringPhase
  \/ StructuringPhaseParse
  \/ pc = "create" /\ \E stream \in WideStreams(role) : CreateStream(stream)
  \/ StreamChunk
  \/ StreamEnd

SpecStructuring == InitStructuring /\ [][NextStructuring]_vars

(* ----------------- the streaming route, from the request on ------------- *)
InitRoute ==
  /\ provider = Undefined
  /\ pc = "request"
  /\ OrchestratorInit
  /\ reqMessage \in MessageInputs
  /\ reqSettings \in SettingsInputs
  /\ httpResponse = NoResponse
  /\ SandboxInit

NextRoute ==
  \/ StreamRequest
  \/ Next

SpecRoute == InitRoute /\ [][NextRoute]_vars

(* ------------------ one invocation of the command executor -------------- *)
InitDisk ==
  /\ provider = "openai"
  /\ pc = "start"
  /\ OrchestratorInit
  /\ reqMessage = Str(<<userGoal>>)
  /\ reqSettings = ApiSettings(Str(<<provider>>), Str(<<"key">>), Str(<<"model">>))
  /\ httpResponse = EventStream
  /\ disk \in InitialDisks
  /\ command = NoCommand
  /\ result = NoResult
  /\ accesses = {}
  /\ spawned = {}
  /\ execOutcome = NoExec
  /\ checked = {}
  /\ boxPc = "idle"

NextSandbox ==
  /\ boxPc = "idle"
  /\ \E cmd \in SandboxCommands :
       \E exec \in ExecFor(cmd) : ExecuteSandboxCommand(cmd, exec)

SpecSandbox == InitDisk /\ [][NextSandbox]_vars

(* ------------------ a sequence of calls on the files -------------------- *)
\* the route has answered with the result: the next request can come
SandboxRespond ==
  /\ boxPc = "done"
  /\ boxPc' = "idle"
  /\ command' = NoCommand
  /\ result' = NoResult
  /\ accesses' = {}
  /\ spawned' = {}
  /\ execOutcome' = NoExec
  /\ checked' = {}
  /\ UNCHANGED <<disk, orchestratorVars, routeVars, other>>

\* a file that exists, a file whose directory does not exist yet, that
\* directory, a file that holds other content, and a second name of the first
FilePaths ==
  {<<"a", ".ts">>, <<"new", "/", "b", ".ts">>, <<"new">>, <<"app">>,
   <<"new", "/", "..", "/", "a", ".ts">>}

FileContents == {<<>>, <<"x", "NL", "y">>}

FileCommands ==
  {SandboxCommand(t, PathArgs(p)) : t \in {"read_file", "delete_file"}, p \in FilePaths}
  \cup {SandboxCommand("write_file", SandboxArgs(p, c, UndefinedText, UndefinedText, 0)) :
          p \in FilePaths, c \in FileContents}

NextFiles ==
  \/ /\ boxPc = "idle"
     /\ \E cmd \in FileCommands : ExecuteSandboxCommand(cmd, NoExec)
  \/ SandboxRespond

SpecFiles == InitDisk /\ [][NextFiles]_vars

(* ------------------ two orchestrators in the same server ---------------- *)
\* The second orchestrator is created by its own request with provider
\* "custom", so its execute() is simplifiedExecute; its fields are other.o.
OtherContents == {BlockText(0), BlockText(1)}

\* the second orchestrator's simplifiedExecute up to its backend call
OtherExecute ==
  /\ other.pc = "start"
  /\ other' = [o |-> SetPhase(other.o, "executing"), pc |-> "create"]
  /\ UNCHANGED <<orchestratorVars, routeVars, boxVars>>

\* its call resolves with the whole response and simplifiedExecute finishes
OtherReturns(content) ==
  /\ other.pc = "create"
  /\ LET sent == IF content # <<>> THEN SendChunks(other.o, content, 0) ELSE other.o
     IN other' = [o |-> SendEvent(SetPhase(sent, "completed"), CompleteEvent),
                  pc |-> "returned"]
  /\ UNCHANGED <<orchestratorVars, routeVars, boxVars>>

\* its call rejects: streamChat logs and rethrows, simplifiedExecute catches
OtherFails(message) ==
  /\ other.pc = "create"
  /\ LET logged == Log(other.o, "error", <<"API Error:", message>>)
     IN other' = [o |-> SendEvent(SetPhase(logged, "failed"), ErrorEvent(message)),
                  pc |-> "returned"]
  /\ UNCHANGED <<orchestratorVars, routeVars, boxVars>>

\* faulty variant: the abort flag is one flag of the module, not of the object
OtherAbortShared ==
  /\ other.pc \in {"create", "returned"}
  /\ ~other.o.aborted
  /\ other' = [other EXCEPT !.o = SendEvent([other.o EXCEPT !.aborted = TRUE],
                                            ErrorEvent(AbortMessage))]
  /\ aborted' = TRUE
  /\ UNCHANGED <<provider, pc, runVars, frameVars, localVars, routeVars, boxVars>>

\* abort() of the second orchestrator, from its own request's "close" handler
OtherAbort ==
  /\ other.pc \in {"create", "returned"}
  /\ ~other.o.aborted
  /\ other' = [other EXCEPT !.o = SendEvent([other.o EXCEPT !.aborted = TRUE],
                                            ErrorEvent(AbortMessage))]
  /\ UNCHANGED <<orchestratorVars, routeVars, boxVars>>

TwoTasks == ArrayText(<<"{A,low}", "{B,critical}">>)

\* a step of the first orchestrator; its structurer answers with two tasks
FirstStep == Next /\ AnswersFrom({TwoTasks})

NextTwoRuns ==
  \/ FirstStep
  \/ OtherExecute
  \/ \E content \in OtherContents : OtherReturns(content)
  \/ \E message \in ErrorMessages : OtherFails(message)
  \/ OtherAbort

SpecTwoRuns == Init /\ [][NextTwoRuns]_vars


(* ================================ claims ================================ *)
TerminalPhases == {"completed", "failed"}
TerminalTypes == {"complete", "error"}

OfType(evs, types) == {i \in 1..Len(evs) : evs[i].type \in types}
PhaseAnnounced(evs, p) ==
  {i \in 1..Len(evs) : evs[i].type = "phase_change" /\ evs[i].phase = p}

MultiPhaseSteps ==
  {<<"idle", "analyzing">>, <<"analyzing", "planning">>,
   <<"planning", "structuring">>, <<"structuring", "executing">>,
   <<"executing", "reviewing">>, <<"reviewing", "completed">>}
  \cup {<<p, "failed">> :
          p \in {"analyzing", "planning", "structuring", "executing", "reviewing"}}

SingleCallSteps ==
  {<<"idle", "executing">>, <<"executing", "completed">>, <<"executing", "failed">>}

PhaseSteps == IF provider = "custom" THEN SingleCallSteps ELSE MultiPhaseSteps

\* C1: run.phase only changes along the transitions of the state machine
\* (the multi-phase chain, or failed from a working phase, or the single-call
\* path when provider = custom); no phase_change to reviewing is written
\* before one to executing, and no phase is announced twice.
C1_PhaseTransitions ==
  /\ [][phase' # phase => <<phase, phase'>> \in PhaseSteps]_vars
  /\ [](\A i \in PhaseAnnounced(events, "reviewing") :
          \E j \in PhaseAnnounced(events, "executing") : j < i)
  /\ [](\A p \in WorkflowPhases : Cardinality(PhaseAnnounced(events, p)) <= 1)

C1_Witness ==
  /\ provider = "openai"
  /\ phase = "completed"
  /\ Len(tasks) = 2
  /\ PhaseAnnounced(events, "reviewing") # {}

\* C2 (as claimed): when execute() has returned, the stream holds exactly one
\* terminal event (complete or error) and it is the last event written.
C2_OneTerminalEvent ==
  pc = "returned" =>
    /\ Cardinality(OfType(events, TerminalTypes)) = 1
    /\ Last(events).type \in TerminalTypes

\* C3: once the abort flag is set, no further event is written.
C3_NoEventAfterAbort == [][aborted => events' = events]_vars

C3_Witness ==
  /\ aborted
  /\ phase = "failed"
  /\ pc = "returned"
  /\ Len(calls) > 3

\* C4 (as claimed): after abort() on a run that has not reached a terminal
\* phase, exactly one error event with the abort message has been written and
\* it is the last event of the stream.
C4_AbortErrorIsLast ==
  (aborted /\ phase \notin TerminalPhases) =>
    /\ events # <<>>
    /\ Last(events) = ErrorEvent(AbortMessage)
    /\ Cardinality(OfType(events, {"error"})) = 1

CallsOf(r) == {i \in 1..Len(calls) : calls[i] = r}

\* C5 (as claimed): a review loop that never hears PASSED makes exactly
\* maxSupervisorRetries worker-fix calls before it ends.
C5_FixCallsEqualRetries ==
  (pc = "reviewed" /\ ~passed /\ ~aborted) =>
    Cardinality(CallsOf("review_fix")) = maxSupervisorRetries

\* C5 (amended): a review loop of a non-aborted run that never hears PASSED
\* makes exactly maxSupervisorRetries supervisor calls and
\* maxSupervisorRetries - 1 worker-fix calls, and ends in the reviewing phase
\* (it does not fail the run).
C5_FixCallsOneLess ==
  (pc = "reviewed" /\ ~passed /\ ~aborted) =>
    /\ Cardinality(CallsOf("supervisor")) = maxSupervisorRetries
    /\ Cardinality(CallsOf("review_fix")) + 1 = maxSupervisorRetries
    /\ retries = maxSupervisorRetries
    /\ phase = "reviewing"

C5_Witness ==
  /\ pc = "reviewed"
  /\ ~passed
  /\ ~aborted
  /\ ~Includes(supervisorFeedback, PassedMarker)
  /\ Len(tasks) > 0

NoArraySpan(text) ==
  ~\E i, j \in 1..Len(text) : i < j /\ text[i] = "[" /\ text[j] = "]"

\* C6 (as claimed): a structurer response with no [...] span leaves exactly
\* one fallback task: description = the raw response, priority high, status
\* todo.
C6_FallbackWithoutArray ==
  (pc = "structured" /\ NoArraySpan(ret)) =>
    /\ Len(tasks) = 1
    /\ tasks[1].description = ret
    /\ tasks[1].priority = "high"
    /\ tasks[1].status = "todo"

\* the tasks are exactly the given entries, in order, and no fallback was made
TasksAre(entries) ==
  /\ Len(tasks) = Len(entries)
  /\ \A i \in 1..Len(entries) :
       /\ i <= Len(tasks)
       /\ tasks[i].title = titleOf(entries[i])
       /\ tasks[i].status = "todo"
       /\ tasks[i].assignee = "worker"
       /\ tasks[i].priority =
            (IF priorityOf(entries[i]) = "" THEN "medium" ELSE priorityOf(entries[i]))
  /\ \A k \in 1..Len(logs) : logs[k].level # "warn"

\* ret is prose of the allowed atoms followed by the text of the array of e
ProseThenArray(allowed, e) ==
  LET n == Len(ArrayText(e))
      m == Len(ret) - n
  IN /\ Len(ret) >= n
     /\ m <= MaxProse
     /\ SubSeq(ret, m + 1, Len(ret)) = ArrayText(e)
     /\ \A i \in 1..m : ret[i] \in allowed

\* C7 (as claimed): whatever the prose, prose followed by a well-formed array
\* of n entries gives exactly those n tasks, in order.
C7_ProseThenArray ==
  pc = "structured" =>
    \A e \in DistinctEntries(MaxTasks) :
      ProseThenArray(ProseAtoms, e) => TasksAre(e)

\* C7 (amended): prose that contains no "[" followed by a well-formed array of
\* n entries gives exactly those n tasks, in array order, each todo, assigned
\* to the worker, with the entry's title and priority (medium when the entry
\* has none), and no fallback task.
C7_BracketFreeProseThenArray ==
  pc = "structured" =>
    \A e \in DistinctEntries(MaxTasks) :
      ProseThenArray(ProseAtoms \ {"["}, e) => TasksAre(e)

C7_Witness ==
  /\ pc = "structured"
  /\ Len(tasks) = 2
  /\ \E e \in DistinctEntries(MaxTasks) :
       /\ Len(e) = 2
       /\ ProseThenArray(ProseAtoms \ {"["}, e)
       /\ Len(ret) = Len(ArrayText(e)) + 2
       /\ ret[1] = "w"
       /\ ret[2] = "]"

StatusSteps ==
  {<<"todo", "analyzing">>, <<"analyzing", "coding">>, <<"coding", "reviewing">>,
   <<"reviewing", "done">>}
  \cup {<<s, "failed">> : s \in {"todo", "analyzing", "coding", "reviewing"}}

\* C8: in every step every task keeps its status or moves one step forward
\* along todo -> analyzing -> coding -> reviewing -> done (or to failed from a
\* non-terminal status).
C8_StatusForwardOnly ==
  [][\A i \in 1..Len(tasks) :
       /\ i <= Len(tasks')
       /\ \/ tasks'[i].status = tasks[i].status
          \/ <<tasks[i].status, tasks'[i].status>> \in StatusSteps]_vars

C8_Witness ==
  /\ Len(tasks) = 2
  /\ \E i, j \in 1..Len(tasks) :
       tasks[i].status = "done" /\ tasks[j].status = "reviewing"

Rank(p) ==
  CASE p = "critical" -> 0 [] p = "high" -> 1 [] p = "medium" -> 2 [] p = "low" -> 3

\* C9: a task that has started never has a larger priority rank than one
\* that has not, and among equal ranks the earlier-created task starts first.
C9_StartOrder ==
  \A a, b \in 1..Len(tasks) :
    (tasks[a].status # "todo" /\ tasks[b].status = "todo") =>
      \/ Rank(tasks[a].priority) < Rank(tasks[b].priority)
      \/ Rank(tasks[a].priority) = Rank(tasks[b].priority) /\ a < b

C9_Witness ==
  /\ Len(tasks) = 2
  /\ tasks[1].status = "todo"
  /\ tasks[2].status # "todo"

\* the token contents written for the streamChat call in progress, joined
TokensOfCall ==
  LET tokenAt == {i \in (callStart + 1)..Len(events) : events[i].type = "token"}
      tokens == SelectSeq(SubSeq(events, callStart + 1, Len(events)),
                          LAMBDA e : e.type = "token")
  IN Flatten([k \in 1..Cardinality(tokenAt) |-> tokens[k].content])

\* C10 (as claimed): the token contents of a call, joined in order, equal the
\* text streamChat returns.
C10_TokensEqualResult == pc = "ret" => TokensOfCall = ret

\* C10 (amended): the token contents of a call, joined in order, equal the
\* text streamChat returns and the phase stores, in incremental mode always
\* and in block mode unless the abort flag was set while the call was pending
\* (then the text is returned and no token is written).
C10_TokensEqualResultUnlessAborted ==
  /\ (pc = "ret" /\ ~(provider = "custom" /\ aborted)) => TokensOfCall = ret
  /\ pc = "analyzed" => TokensOfCall = analysisResult
  /\ pc = "planned" => TokensOfCall = planningResult

C10_Witness ==
  /\ pc = "ret"
  /\ provider = "custom"
  /\ ~aborted
  /\ Len(ret) > 2 * chunkSize
  /\ Cardinality(OfType(events, {"token"})) = 3

(* ------------------------- claims on the sandbox ------------------------ *)
\* the path an operation hands to sanitizePath
RequestedPath ==
  IF command.type = "list_files" THEN PathOrDot(command.args.path)
  ELSE IF command.type = "search_code" /\ command.args.path = UndefinedText
  THEN <<".">>
  ELSE command.args.path

\* p is the project root or lies under it
InsideRoot(p) == p = SANDBOX_ROOT \/ StartsWith(p, SANDBOX_ROOT \o <<"/">>)

\* the request names a location outside the project root
RequestLeavesRoot ==
  /\ command.type \in PathTaking
  /\ RequestedPath # UndefinedText
  /\ ~InsideRoot(Resolve(SANDBOX_ROOT, Normalize(RequestedPath)))

\* C11 (as claimed): a path-taking operation asked for a path that resolves
\* outside the project root fails with the path-traversal error, and it
\* makes no fs call on a path outside the root and spawns nothing.
C11_TraversalRejected ==
  boxPc = "done" /\ RequestLeavesRoot =>
    /\ result.success = FALSE
    /\ result.error = PathTraversalError
    /\ \A a \in accesses : InsideRoot(a.path)
    /\ spawned = {}

\* C12 (as claimed): every fs call of an invocation is made on a path that
\* sanitizePath returned in that invocation, or on the parent directory of
\* one (the directory writeFile creates for its target).
C12_EveryAccessChecked ==
  boxPc = "done" =>
    \A a \in accesses : \E p \in checked : a.path = p \/ a.path = Dirname(p)

\* the command line up to its first space
FirstToken(line) ==
  IF Positions(line, " ") = {} THEN line
  ELSE SubSeq(line, 1, MinOf(Positions(line, " ")) - 1)

\* the token is an allow-listed name, or a path ending in /name
AllowListed(token) ==
  \E name \in ALLOWED_COMMANDS :
    \/ token = <<name>>
    \/ Len(token) >= 2 /\ token[Len(token) - 1] = "/" /\ token[Len(token)] = name

\* C13: execute_shell gives a command line to exec only when its first
\* space-delimited token is allow-listed, and then only that command line;
\* for every other command line it returns success=false with the
\* command-not-allowed error naming the token, and spawns nothing.
C13_ShellAllowList ==
  boxPc = "done" /\ command.type = "execute_shell" =>
    IF command.args.command = UndefinedText
    THEN spawned = {} /\ result.success = FALSE
    ELSE IF AllowListed(FirstToken(command.args.command))
    THEN spawned = {command.args.command}
    ELSE /\ spawned = {}
         /\ accesses = {}
         /\ result.success = FALSE
         /\ result.error = <<"Command not allowed:">> \o FirstToken(command.args.command)

C13_Witness ==
  /\ boxPc = "done"
  /\ command.type = "execute_shell"
  /\ command.args.command = <<"rm", " ", "-rf", " ", "/">>
  /\ result.error = <<"Command not allowed:", "rm">>
  /\ spawned = {}

\* lint_check read the file and reports what it found
LintReported ==
  /\ command.type = "lint_check"
  /\ result.logs = UndefinedText
  /\ \E a \in accesses : a.op = "readFileSync"

\* C14 (as claimed): executeSandboxCommand never rejects; its result has a
\* boolean success, and every result with success=false has an error message.
C14_FailureHasError ==
  /\ boxPc # "rejected"
  /\ boxPc = "done" =>
       /\ result.success \in BOOLEAN
       /\ result.success = FALSE => result.error # UndefinedText

\* C14 (amended): executeSandboxCommand never rejects; its result has a
\* boolean success, and every result with success=false has an error message,
\* except the report of lint_check on a file with issues, which holds the
\* issues in data and no error.
C14_FailureHasErrorUnlessLint ==
  /\ boxPc # "rejected"
  /\ boxPc = "done" =>
       /\ result.success \in BOOLEAN
       /\ result.success = FALSE /\ ~LintReported => result.error # UndefinedText
       /\ result.success = FALSE /\ LintReported => result.error = UndefinedText

\* an operating-system failure inside write_file came back as a result
C14_Witness ==
  /\ boxPc = "done"
  /\ command.type = "write_file"
  /\ result.success = FALSE
  /\ result.error = EISDIR
  /\ result.logs # UndefinedText

\* C15: a command whose type is not one of the nine operations gets
\* success=false with the unknown-command-type error naming the type; no fs
\* call is made, nothing is spawned and the disk is as it was.
C15_UnknownType ==
  boxPc = "done" /\ command.type \notin SandboxCommandTypes =>
    /\ result.success = FALSE
    /\ result.error = <<"Unknown command type:", command.type>>
    /\ accesses = {}
    /\ spawned = {}
    /\ disk \in InitialDisks

C15_Witness ==
  /\ boxPc = "done"
  /\ command.type = "rename_file"
  /\ command.args.path = <<"a", ".ts">>
  /\ result.success = FALSE

(* ---------------------- claims on errors of a run ----------------------- *)
\* a backend call of a run that is not aborted has raised, and execute's catch
\* has not run yet
BackendErrorPending == pc = "threw" /\ ~aborted

\* C16: when a backend call of a non-aborted run raises, in whatever phase,
\* the next step of the run issues no backend call, sets run.phase to failed,
\* emits as its last event an error event carrying the raised message, and
\* returns; after the return no call is issued and the phase is left alone.
\* The raising itself issues no call and changes no phase.
C16_BackendErrorFailsRun ==
  [][/\ (BackendErrorPending
          => /\ pc' = "returned"
             /\ phase' = "failed"
             /\ calls' = calls
             /\ Len(events') > Len(events)
             /\ Last(events').type = "error"
             /\ Last(events').error = err)
     /\ (pc' = "threw" /\ pc # "threw"
          => /\ calls' = calls
             /\ phase' = phase
             /\ phase \in {"analyzing", "planning", "structuring", "executing",
                            "reviewing"})
     /\ (pc = "returned" => calls' = calls /\ phase' = phase)]_vars

\* the worker's call raised while a task was coded, and the run has failed
C16_Witness ==
  /\ pc = "returned"
  /\ ~aborted
  /\ phase = "failed"
  /\ Last(calls) = "worker"
  /\ err \in ErrorMessages
  /\ Last(events) = [StreamingChunk("error") EXCEPT !.error = err]


\* the review loop ended because the retries ran out: the supervisor never
\* answered PASSED, no backend call raised and the run was not aborted
RetriesExhausted ==
  /\ retries = maxSupervisorRetries
  /\ ~passed
  /\ err = ""
  /\ ~aborted

\* C17: a run whose supervisor retries ran out without PASSED, with no raised
\* backend call and no abort, does not fail: from the end of reviewPhase its
\* next step sets the phase to completed and emits the complete event, and
\* when execute has returned the phase is completed, the last event is the
\* complete event, no error event was emitted and supervisorPassCount is 0.
C17_ExhaustedRetriesComplete ==
  /\ [](pc = "returned" /\ RetriesExhausted
        => /\ phase = "completed"
           /\ Last(events).type = "complete"
           /\ \A i \in 1..Len(events) : events[i].type # "error"
           /\ supervisorPassCount = 0)
  /\ [][pc = "reviewed" /\ RetriesExhausted
        => /\ pc' = "returned"
           /\ phase' = "completed"
           /\ Last(events').type = "complete"]_vars

\* a run that returned after the supervisor asked for fixes every time
C17_Witness ==
  /\ pc = "returned"
  /\ RetriesExhausted
  /\ phase = "completed"
  /\ supervisorPassCount = 0
  /\ Len(SelectSeq(calls, LAMBDA c : c = "supervisor")) = maxSupervisorRetries
  /\ Last(events).type = "complete"


(* ------------------- claims on the streaming request -------------------- *)
\* the request carries a message: a string that is not empty
MessageGiven == reqMessage.type = "string" /\ reqMessage.value # <<>>

\* the request carries valid backend settings: an object with a provider of
\* the enumeration, a string apiKey and a string model
SettingsValid ==
  /\ reqSettings.type = "object"
  /\ reqSettings.provider \in {Str(<<p>>) : p \in Providers}
  /\ reqSettings.apiKey.type = "string"
  /\ reqSettings.model.type = "string"

\* C18: for a streaming request whose message is missing or not a string, or
\* whose backend settings are missing or invalid, the handler never gets past
\* its validation: no orchestrator is created (no phase entered, nothing
\* logged), no backend call is issued, no event is written and the response
\* is never an event stream; once answered, the answer is a JSON error.
C18_InvalidRequestRejected ==
  ~(MessageGiven /\ SettingsValid)
  => /\ pc \in {"request", "rejected"}
     /\ phase = "idle"
     /\ logs = <<>>
     /\ calls = <<>>
     /\ events = <<>>
     /\ httpResponse.kind # "text/event-stream"
     /\ pc = "rejected" => /\ httpResponse.kind = "json"
                           /\ httpResponse.status \in {400, 500}

\* a request with a message and a settings object that names no known
\* provider was answered with the schema's error
C18_Witness ==
  /\ pc = "rejected"
  /\ MessageGiven
  /\ reqSettings.type = "object"
  /\ ~SettingsValid
  /\ httpResponse = JsonResponse(500, "ZodError")


(* ------------------------ claims on the task list ----------------------- *)
\* the tasks (as positions in run.tasks) that are being worked on
InProgress(ts) ==
  {i \in 1..Len(ts) : ts[i].status \in {"analyzing", "coding", "reviewing"}}

\* C19: the tasks of a run are processed one at a time: in every state at
\* most one task is analyzing, coding or reviewing, and in the step in which
\* a task leaves todo every other task is either still todo or already done.
C19_OneTaskAtATime ==
  /\ [](Cardinality(InProgress(tasks)) <= 1)
  /\ [][\A i \in 1..Len(tasks) :
          Len(tasks') = Len(tasks) /\ tasks[i].status = "todo"
            /\ tasks'[i].status # "todo"
          => /\ tasks'[i].status = "analyzing"
             /\ \A j \in (1..Len(tasks)) \ {i} :
                  /\ tasks[j].status \in {"todo", "done"}
                  /\ tasks'[j] = tasks[j]]_vars

\* the second task of a run is being coded after the first was done
C19_Witness ==
  /\ Len(tasks) = 2
  /\ \E i, j \in 1..2 : /\ tasks[i].status = "done"
                         /\ tasks[j].status = "coding"
                         /\ currentTaskId = tasks[j].id


\* the ids of a task list, in the order of the list
Ids(ts) == [i \in 1..Len(ts) |-> ts[i].id]

\* C20: run.tasks is empty in the phases before structuring; the list of task
\* ids changes in one step only, in the structuring phase when the
\* structurer's response is stored into the still empty list; from then on
\* no step adds, removes or reorders a task, whatever order the executing
\* phase takes the tasks in.
C20_TasksAssignedOnce ==
  /\ [](phase \in {"idle", "analyzing", "planning"} => tasks = <<>>)
  /\ [][Ids(tasks') # Ids(tasks)
        => /\ tasks = <<>>
           /\ phase = "structuring"
           /\ phase' = "structuring"
           /\ pc = "ret"
           /\ role = "structurer"]_vars

\* a completed run of two tasks that were executed in the reverse of their
\* order in run.tasks, with the list still in its first order
C20_Witness ==
  /\ phase = "completed"
  /\ Len(tasks) = 2
  /\ sortedTasks = <<2, 1>>
  /\ Ids(tasks) = <<1, 2>>
  /\ \A i \in 1..2 : tasks[i].status = "done"

(* ---------------------- claims on single-call mode ---------------------- *)
\* C21: with provider = custom a run issues one backend call and no second
\* one, creates no task, and is only ever in the phases idle, executing,
\* completed and failed: the phase changes from idle to executing before the
\* call, and from executing to completed when the call returned or to failed
\* when it raised; when execute has returned exactly one call was issued.
C21_SingleCallMode ==
  /\ [](provider = "custom"
        => /\ Len(calls) <= 1
           /\ tasks = <<>>
           /\ phase \in {"idle", "executing", "completed", "failed"}
           /\ phase = "idle" <=> calls = <<>>
           /\ pc = "returned"
              => /\ calls = <<"simple">>
                 /\ phase = (IF err = "" THEN "completed" ELSE "failed"))
  /\ [][provider = "custom" /\ phase' # phase
        => \/ phase = "idle" /\ phase' = "executing" /\ pc = "start"
           \/ phase = "executing" /\ phase' = "completed" /\ pc = "ret"
           \/ phase = "executing" /\ phase' = "failed" /\ pc = "threw"]_vars

\* a single-call run that completed, and its events tell the two phases
C21_Witness ==
  /\ provider = "custom"
  /\ pc = "returned"
  /\ phase = "completed"
  /\ calls = <<"simple">>
  /\ tasks = <<>>
  /\ ~aborted
  /\ PhaseAnnounced(events, "executing") # {}
  /\ PhaseAnnounced(events, "completed") # {}
  /\ \A i \in PhaseAnnounced(events, "executing") :
       \A j \in PhaseAnnounced(events, "completed") : i < j

(* ----------------------- claims on the review loop ---------------------- *)
\* the supervisor's answer has come back and is about to be looked at
SupervisorAnswered == pc = "ret" /\ role = "supervisor"

\* C22: a supervisor response that contains PASSED raises supervisorPassCount
\* by one in the step that reads it, and that step issues no call; once the
\* count is 1 it stays 1 and no backend call is issued any more, so no fix and
\* no further review follows; the count is 0 or 1 in every state, it changes
\* in no other step, and it is 1 only if the stored supervisor feedback
\* contains PASSED.
C22_PassedEndsReview ==
  /\ [](/\ supervisorPassCount \in {0, 1}
        /\ supervisorPassCount = 1 => Includes(supervisorFeedback, PassedMarker))
  /\ [][/\ (SupervisorAnswered /\ Includes(ret, PassedMarker)
            => /\ supervisorPassCount' = supervisorPassCount + 1
               /\ calls' = calls)
        /\ (supervisorPassCount' # supervisorPassCount
            => SupervisorAnswered /\ Includes(ret, PassedMarker))
        /\ (supervisorPassCount = 1
            => calls' = calls /\ supervisorPassCount' = 1)]_vars

\* the supervisor asked for fixes once and passed the second time
C22_Witness ==
  /\ pc = "returned"
  /\ supervisorPassCount = 1
  /\ retries = 1
  /\ phase = "completed"
  /\ Len(calls) >= 3
  /\ SubSeq(calls, Len(calls) - 2, Len(calls))
       = <<"supervisor", "review_fix", "supervisor">>

\* C23: whatever the supervisor answers, at most maxSupervisorRetries
\* supervisor calls are issued in a run and the retry counter stays within
\* 0..maxSupervisorRetries; a worker-fix call of the review is issued only by
\* the step that reads a supervisor response without PASSED, so that in the
\* list of calls it directly follows a supervisor call.
C23_ReviewBounded ==
  /\ [](/\ Cardinality({k \in 1..Len(calls) : calls[k] = "supervisor"})
             <= maxSupervisorRetries
        /\ retries \in 0..maxSupervisorRetries
        /\ \A k \in 1..Len(calls) :
             calls[k] = "review_fix" => k > 1 /\ calls[k - 1] = "supervisor")
  /\ [][Len(calls') > Len(calls) /\ Last(calls') = "review_fix"
        => /\ SupervisorAnswered
           /\ ~Includes(ret, PassedMarker)
           /\ retries' = retries + 1]_vars

\* the supervisor was called maxSupervisorRetries times and never passed
C23_Witness ==
  /\ pc = "reviewed"
  /\ retries = maxSupervisorRetries
  /\ ~passed
  /\ Cardinality({k \in 1..Len(calls) : calls[k] = "supervisor"}) = maxSupervisorRetries
  /\ Cardinality({k \in 1..Len(calls) : calls[k] = "review_fix"})
       = maxSupervisorRetries - 1

(* ------------------- claims on the events about tasks ------------------- *)
\* the positions in evs of the events of one type about the task with this id
TaskEvents(evs, type, id) ==
  {k \in 1..Len(evs) : evs[k].type = type /\ evs[k].taskId = id}

\* C24: when the structuring phase of a run that is not aborted has ended,
\* the events hold exactly one task_update for every task of run.tasks,
\* whether the tasks were parsed from the array or the fallback task was made.
C24_OneUpdatePerCreatedTask ==
  pc = "structured" /\ ~aborted
  => \A i \in 1..Len(tasks) :
       Cardinality(TaskEvents(events, "task_update", tasks[i].id)) = 1

(* --------------------------- claims on abort ---------------------------- *)
\* C25: once the abort flag is set in a multi-phase run whose phase is
\* executing, no task is started any more: no task is added or removed, every
\* task that is todo stays todo in every later step, and the phase stays
\* executing or becomes failed, never reviewing or completed.
C25_NoTaskStartedAfterAbort ==
  [][aborted /\ provider # "custom" /\ phase \in {"executing", "failed"}
     => /\ Len(tasks') = Len(tasks)
        /\ \A i \in 1..Len(tasks) :
             tasks[i].status = "todo" => tasks'[i].status = "todo"
        /\ phase' \in {"executing", "failed"}]_vars

\* a run aborted while its first task was worked on: that task was finished,
\* the other one is still todo and execute has returned
C25_Witness ==
  /\ aborted
  /\ pc = "returned"
  /\ phase = "executing"
  /\ Len(tasks) = 2
  /\ \E i, j \in 1..2 : tasks[i].status = "done" /\ tasks[j].status = "todo"

\* C26: once the abort flag is set, run.phase does not change any more.
C26_PhaseFrozenAfterAbort ==
  [][aborted => phase' = phase]_vars

\* the statuses shown by the events about the task with this id, in the order
\* of emission
RECURSIVE StatusesShown(_, _)
StatusesShown(evs, id) ==
  IF evs = <<>> THEN <<>>
  ELSE (IF Head(evs).taskId = id /\ Head(evs).type \in {"task_update", "task_complete"}
        THEN <<Head(evs).task[1].status>> ELSE <<>>)
       \o StatusesShown(Tail(evs), id)

IsPrefix(s, t) == Len(s) <= Len(t) /\ s = SubSeq(t, 1, Len(s))

\* the statuses a task goes through in executeTask
ProcessingOrder == <<"analyzing", "coding", "reviewing", "done">>

\* C27: in a run that is not aborted, the events about a task show, after the
\* task_update of its creation (status todo) when it came from the parsed
\* array, the statuses analyzing, coding, reviewing, done in this order and
\* each once, as far as the task has got; the event showing done is the one
\* task_complete of the task and the others are task_update events; every
\* event carries the task as it was when the event was emitted, so the last
\* of them shows the status the task has now.
C27_TaskEventsInOrder ==
  ~aborted
  => \A i \in 1..Len(tasks) :
       LET shown == StatusesShown(events, tasks[i].id)
       IN /\ \/ IsPrefix(shown, ProcessingOrder)
             \/ IsPrefix(shown, <<"todo">> \o ProcessingOrder)
          /\ tasks[i].status # "todo"
             => shown # <<>> /\ Last(shown) = tasks[i].status
          /\ \A k \in TaskEvents(events, "task_update", tasks[i].id) :
               events[k].task[1].status # "done"
          /\ \A k \in TaskEvents(events, "task_complete", tasks[i].id) :
               events[k].task[1].status = "done"
          /\ tasks[i].status = "done"
             => Cardinality(TaskEvents(events, "task_complete", tasks[i].id)) = 1

\* a run of two tasks that completed without an abort: each task has its
\* five events
C27_Witness ==
  /\ ~aborted
  /\ phase = "completed"
  /\ Len(tasks) = 2
  /\ \A i \in 1..2 :
       StatusesShown(events, tasks[i].id) = <<"todo">> \o ProcessingOrder

(* ---------------------- claims on the syntax check ---------------------- *)
CallsTo(r) == Cardinality(CallsOf(r))

DoneTasks == {i \in 1..Len(tasks) : tasks[i].status = "done"}

\* the done tasks whose implementation failed the syntax check
FixedTasks ==
  {i \in DoneTasks : \E k \in 1..Len(tasks[i].logs) :
                       tasks[i].logs[k] = "Syntax issues found"}

\* C28: a failed syntax check costs one more worker call and nothing else.
\* When the check of an implementation with unbalanced braces ends, the next
\* step issues the fix call, and the phase and the task's status stay; when
\* the check finds nothing the task is done with no further call; when the
\* fix call has returned the task is done with no further call and no further
\* check, although the fix is unbalanced as well. Between two tasks the run
\* has issued one task-analyzer call and one worker call for every done task
\* and one fix call for every done task whose check failed.
C28_OneFixPerFailedCheck ==
  /\ [](pc = "task_loop"
        => /\ CallsTo("task_analyzer") = Cardinality(DoneTasks)
           /\ CallsTo("worker") = Cardinality(DoneTasks)
           /\ CallsTo("syntax_fix") = Cardinality(FixedTasks))
  /\ [][/\ (pc = "lint" /\ role = "worker" /\ ret = BrokenCode
            => /\ calls' = Append(calls, "syntax_fix")
               /\ phase' = phase
               /\ tasks'[sortedTasks[idx]].status = "reviewing")
        /\ (pc = "lint" /\ role = "worker" /\ ret # BrokenCode
            => /\ calls' = calls
               /\ phase' = phase
               /\ tasks'[sortedTasks[idx]].status = "done")
        /\ (pc = "ret" /\ role = "syntax_fix"
            => /\ calls' = calls
               /\ phase' = phase
               /\ pc' = "task_loop"
               /\ tasks'[sortedTasks[idx]].status = "done")]_vars

\* a completed run of two tasks, one whose implementation passed the check
\* and one whose implementation failed it: five calls for the two tasks and
\* one fix
C28_Witness ==
  /\ phase = "completed"
  /\ ~aborted
  /\ Cardinality(DoneTasks) = 2
  /\ Cardinality(FixedTasks) = 1
  /\ CallsTo("task_analyzer") = 2
  /\ CallsTo("worker") = 2
  /\ CallsTo("syntax_fix") = 1

(* --------------------- claims on the forbidden paths -------------------- *)
Denylist == {"node_modules", ".env", ".git", "dist"}

\* the resolved form of the requested path
ResolvedRequest == Resolve(SANDBOX_ROOT, Normalize(RequestedPath))

\* the components of a path: what stands between its separators
Components(p) == {SplitOn(p, "/")[k] : k \in 1..Len(SplitOn(p, "/"))}

\* one of the components of p is a denylist entry
HasForbiddenComponent(p) == \E d \in Denylist : <<d>> \in Components(p)

\* the invocation failed with the forbidden-path error
ForbiddenReported ==
  /\ result.success = FALSE
  /\ \E d \in Denylist : result.error = ForbiddenError(d)

\* a path-taking operation was asked for a path that resolves inside the root
RequestInsideRoot ==
  /\ boxPc = "done"
  /\ command.type \in PathTaking
  /\ RequestedPath # UndefinedText
  /\ InsideRoot(ResolvedRequest)

\* C29 (as claimed): a path that resolves inside the project root is rejected
\* with the forbidden-path error if and only if one of its components is a
\* denylist entry.
C29_ForbiddenIffComponent ==
  RequestInsideRoot => (ForbiddenReported <=> HasForbiddenComponent(ResolvedRequest))

(* ---------------------- claims on the shell output ---------------------- *)
\* the first n characters of a text
Truncated(text, n) == IF Len(text) <= n THEN text ELSE SubSeq(text, 1, n)

\* execute_shell was called with an allowed command and its subprocess ended
ShellRan ==
  /\ boxPc = "done"
  /\ command.type = "execute_shell"
  /\ spawned # {}

\* C30: the data execute_shell returns is never longer than
\* MAX_OUTPUT_LENGTH: when the subprocess succeeded, the result has
\* success=true and its data is stdout followed by stderr, cut to the first
\* MAX_OUTPUT_LENGTH characters; when it failed (non-zero exit or timeout),
\* the result has success=false, an error message, and as data the stdout
\* captured so far, cut in the same way.
C30_ShellOutputTruncated ==
  ShellRan
  => /\ Len(result.data) <= MAX_OUTPUT_LENGTH
     /\ execOutcome.code = 0
        => /\ result.success = TRUE
           /\ result.data
                = Truncated(execOutcome.stdout \o execOutcome.stderr, MAX_OUTPUT_LENGTH)
     /\ execOutcome.code # 0
        => /\ result.success = FALSE
           /\ result.error \notin {UndefinedText, <<>>}
           /\ result.data = Truncated(execOutcome.stdout, MAX_OUTPUT_LENGTH)

\* a success whose combined output was one character too long: the data is
\* the whole stdout and the first character of stderr
C30_Witness ==
  /\ ShellRan
  /\ result.success = TRUE
  /\ Len(execOutcome.stdout \o execOutcome.stderr) = MAX_OUTPUT_LENGTH + 1
  /\ Len(result.data) = MAX_OUTPUT_LENGTH
  /\ result.data = execOutcome.stdout \o <<"e">>

(* ------------------ claims on the effects on the disk ------------------- *)
\* the invocation this step makes was given a path that the path check
\* accepted; safePath is what the check returned
AcceptedAs(safePath) == checked' = {safePath}

NotFoundErrors ==
  {FileNotFound(command'.args.path), DirectoryNotFound(PathOrDot(command'.args.path))}

\* C31: read_file, delete_file, list_files and lint_check on an accepted path
\* at which the disk holds nothing fail with a not-found error and leave the
\* disk as it was; delete_file on an accepted path that holds a file succeeds
\* and leaves a disk that differs from the one before in that path only,
\* which it no longer holds.
C31_NotFoundAndDelete ==
  [][\A safePath \in checked' :
       /\ (/\ command'.type \in {"read_file", "delete_file", "list_files", "lint_check"}
           /\ AcceptedAs(safePath)
           /\ safePath \notin DOMAIN disk
           => /\ result'.success = FALSE
              /\ result'.error \in NotFoundErrors
              /\ disk' = disk)
       /\ (/\ command'.type = "delete_file"
           /\ AcceptedAs(safePath)
           /\ safePath \in DOMAIN disk
           /\ disk[safePath].kind = "file"
           => /\ result'.success = TRUE
              /\ DOMAIN disk' = DOMAIN disk \ {safePath}
              /\ \A q \in DOMAIN disk' : disk'[q] = disk[q])]_vars

\* delete_file removed a.ts from the project directory
C31_Witness ==
  /\ boxPc = "done"
  /\ command.type = "delete_file"
  /\ command.args.path = <<"a", ".ts">>
  /\ result.success = TRUE
  /\ <<"/", "srv", "/", "app", "/", "a", ".ts">> \notin DOMAIN disk
  /\ <<"/", "srv", "/", "app", "/", "app">> \in DOMAIN disk

\* C32: over every sequence of read_file, write_file and delete_file calls:
\* a write_file of content c that returns success leaves c at the path the
\* check accepted, whether or not the directories above it existed and
\* whatever the path held; a read_file of an accepted path that holds a file
\* returns success with that file's content; and what a path holds changes
\* only in a write_file or delete_file call on that very path that succeeds,
\* except that a write_file creates the missing directories above its path.
\* So a read_file after a successful write_file returns the written content
\* until the next write_file or delete_file on the path.
C32_ReadAfterWrite ==
  [][/\ \A safePath \in checked' :
          /\ (command'.type = "write_file" /\ result'.success = TRUE
              => /\ safePath \in DOMAIN disk'
                 /\ disk'[safePath] = File(command'.args.content))
          /\ (/\ command'.type = "read_file"
              /\ safePath \in DOMAIN disk
              /\ disk[safePath].kind = "file"
              => /\ result'.success = TRUE
                 /\ result'.data = disk[safePath].content
                 /\ disk' = disk)
     /\ \A q \in DOMAIN disk :
          disk[q].kind = "file" /\ (q \notin DOMAIN disk' \/ disk'[q] # disk[q])
          => /\ command'.type \in {"write_file", "delete_file"}
             /\ result'.success = TRUE
             /\ checked' = {q}]_vars

\* content was written to new/b.ts, whose directory did not exist, then the
\* file was read: the read returned the content
C32_Witness ==
  /\ boxPc = "done"
  /\ command.type = "read_file"
  /\ command.args.path = <<"new", "/", "b", ".ts">>
  /\ result.success = TRUE
  /\ result.data = <<"x", "NL", "y">>
  /\ disk[<<"/", "srv", "/", "app", "/", "new">>] = Dir

(* --------------------- claims on the block-mode tokens ------------------ *)
\* the contents of the token events of the streamChat call in progress or
\* just returned, in the order of emission
RECURSIVE TokenContents(_)
TokenContents(evs) ==
  IF evs = <<>> THEN <<>>
  ELSE (IF Head(evs).type = "token" THEN <<Head(evs).content>> ELSE <<>>)
       \o TokenContents(Tail(evs))

TokensSent == TokenContents(SubSeq(events, callStart + 1, Len(events)))

\* ceil(n / 50)
ChunksOf(n) == (n + 49) \div 50

\* the tokens are the response cut into slices of 50: all but the last hold 50
\* characters, the last holds the rest, and joined they are the response
ChunkedAs(tokens, response) ==
  /\ Len(tokens) = ChunksOf(Len(response))
  /\ \A k \in 1..Len(tokens) - 1 : Len(tokens[k]) = 50
  /\ tokens # <<>> => Len(Last(tokens)) \in 1..50
  /\ Flatten(tokens) = response

\* C33 (as claimed): in block mode, when streamChat has returned a response
\* of length L, ceil(L/50) token events were emitted for it, each of 50
\* characters but the last, which holds the remaining 1..50, and none for an
\* empty response.
C33_BlockChunks ==
  pc = "ret" /\ provider = "custom" => ChunkedAs(TokensSent, ret)

\* C33 (amended): the same, for a call during which the abort flag was not
\* set; when abort() was called while the call was pending, the response is
\* returned and no token event is emitted for it.
C33_BlockChunksUnlessAborted ==
  pc = "ret" /\ provider = "custom"
  => IF aborted THEN TokensSent = <<>> ELSE ChunkedAs(TokensSent, ret)

\* a response of more than 100 characters went out as three tokens, the last
\* of them shorter than 50
C33_Witness ==
  /\ pc = "ret"
  /\ provider = "custom"
  /\ ~aborted
  /\ Len(ret) > 100
  /\ Len(TokensSent) = 3
  /\ Len(TokensSent[3]) < 50

\* C34: two runs of different requests share no mutable state: a step of one
\* orchestrator, its abort() included, writes no event to the other's channel
\* and leaves the other's abort flag, phase, tasks and the rest of its run
\* as they were
C34_RunsIndependent ==
  [][/\ other' # other => UNCHANGED <<aborted, runVars>>
     /\ <<aborted, runVars>>' # <<aborted, runVars>> => other' = other]_vars

\* the second run was aborted and the first one, with its tasks, went on to
\* its complete event
C34_Witness ==
  /\ other.o.aborted
  /\ ~aborted
  /\ tasks # <<>>
  /\ phase = "completed"
  /\ Last(events).type = "complete"

\* C35: once abort() has been called the orchestrator starts no new backend
\* call: no step taken with the abort flag set adds a call, whether of the
\* task-analyzer, the worker, the syntax fix, the supervisor or the worker fix
C35_NoCallAfterAbort == [][aborted => calls' = calls]_vars

\* C36: in multi-phase mode, whenever run.phase is reviewing or completed,
\* every task of the run has status done
C36_ReviewedTasksDone ==
  (provider # "custom" /\ phase \in {"reviewing", "completed"})
    => \A i \in 1..Len(tasks) : tasks[i].status = "done"

\* the review phase was entered with two tasks, both processed
C36_Witness ==
  /\ provider # "custom"
  /\ phase = "reviewing"
  /\ Len(tasks) = 2
  /\ \A i \in 1..Len(tasks) : tasks[i].status = "done"

HasLog(task, entry) == \E k \in 1..Len(task.logs) : task.logs[k] = entry

\* C37: for every task, completedAt is set if and only if the status is done,
\* and a done task has its analysis entry and its "Implementation completed"
\* entry in its logs
C37_CompletedIffDone ==
  \A i \in 1..Len(tasks) :
    /\ tasks[i].completedAt # "" <=> tasks[i].status = "done"
    /\ tasks[i].status = "done"
         => HasLog(tasks[i], "Analysis") /\ HasLog(tasks[i], "Implementation completed")

\* one task is done and stamped while the next one is still being worked on
C37_Witness ==
  /\ Len(tasks) = 2
  /\ \E i, j \in 1..Len(tasks) :
       /\ tasks[i].status = "done"
       /\ tasks[i].completedAt # ""
       /\ tasks[j].status = "coding"
       /\ tasks[j].completedAt = ""

CallBound(n) == 3 + 3 * n + (2 * maxSupervisorRetries - 1)

\* C38: when every backend call eventually returns or raises, execute()
\* eventually returns, with run.phase completed or failed or after an abort,
\* and at no time has the run made more than 3 + 3n + (2*maxSupervisorRetries - 1)
\* backend calls, n being the number of tasks of the run
C38_Terminates ==
  /\ <>(pc = "returned")
  /\ [](pc = "returned" => (phase \in TerminalPhases \/ aborted))
  /\ [](Len(calls) <= CallBound(Len(tasks)))

\* a run of two tasks returned after exactly as many calls as the bound allows
C38_Witness ==
  /\ pc = "returned"
  /\ Len(tasks) = 2
  /\ Len(calls) = CallBound(2)

\* C39: every program that execute_shell causes to run is an allow-listed
\* utility: the shell starts no program outside the allow-list for a command
\* line that passed the check, whatever operators follow its first token
C39_OnlyAllowListedPrograms ==
  (boxPc = "done" /\ command.type = "execute_shell") =>
    \A line \in spawned : \A program \in ShellPrograms(line) : AllowListed(program)

====
